---- MODULE Spec2Model ----
(***************************************************************************)
(* State-machine model of the Fenix CRM backend: the Lead store and its    *)
(* HTTP handlers (create, update, bulk update, webhook ingestion, list     *)
(* with the role-based filter builder), and the Lot store with its         *)
(* transactional handlers and model methods.                               *)
(*                                                                         *)
(* Strings the code inspects character by character (phone numbers) are    *)
(* sequences of one-character strings.  JS null / undefined of a string    *)
(* field are the values Null / Undefined.                                  *)
(***************************************************************************)
EXTENDS Integers, Sequences, FiniteSets, TLC

VARIABLES
    leads,      \* the "customers" collection: lead id -> Lead document
    nextLeadId, \* ids are never reused: the next _id the store hands out
    admins,     \* the "admins" collection: admin id -> [role, team]
    teams,      \* the "teams" collection: team id -> [name, leaderIds, managerIds]
    lots,       \* the "lots" collection: lot id -> Lot document
    history,    \* the "leadhistories" collection, in insertion order
    nextReq,    \* number of Lot requests handled so far (request ids)
    inflight,   \* requests between two of their awaits: request -> what it holds
    clock,      \* the server clock in seconds, as jwt.sign reads it for iat
    last        \* the last request handled and the response it got

vars == <<leads, nextLeadId, admins, teams, lots, history, nextReq, inflight, clock, last>>

----------------------------------------------------------------------------
(* Bounds of the model *)

\* Lead documents the store may hold (creations per run).
MaxLeads == 2

\* Lot requests handled per run.
MaxRequests == 3

\* LeadsHistory entries written by Lead handlers per run.
MaxLog == 2

\* Seconds the server clock runs through.
MaxClock == 2

\* Entries a Lot's amountHistory may hold (model-method specification).
MaxHistory == 3

\* Notes a Lead may hold.
MaxNotes == 2

----------------------------------------------------------------------------
(* Values *)

Null == "null"
Undefined == <<"undefined">>

Digits == {"0", "1", "2", "3", "4", "5", "6", "7", "8", "9"}

\* "+1 (555) 123-4567"
PhoneFormatted ==
    <<"+", "1", " ", "(", "5", "5", "5", ")", " ", "1", "2", "3", "-", "4", "5", "6", "7">>

\* " 380" : digits with leading white space
PhonePadded == <<" ", "3", "8", "0">>

\* ""
EmptyString == <<>>

\* ' No Phone', the Tilda handler's placeholder
NoPhonePlaceholder == <<" ", "N", "o", " ", "P", "h", "o", "n", "e">>

PhoneInputs == {PhoneFormatted, PhonePadded, EmptyString}

\* JS truthiness of a string-or-undefined value
Truthy(s) == s # Undefined /\ s # EmptyString

----------------------------------------------------------------------------
(* String helpers used by the schema and the handlers *)

\* The reference meaning of "all non-digit characters removed".
DigitsOnly(s) == SelectSeq(s, LAMBDA c : c \in Digits)

RECURSIVE ReplaceFirstNonDigit(_)
\* s.replace(/\D/, '') : without the g flag only the first match goes
ReplaceFirstNonDigit(s) ==
    IF s = <<>> THEN <<>>
    ELSE IF Head(s) \in Digits THEN <<Head(s)>> \o ReplaceFirstNonDigit(Tail(s))
    ELSE Tail(s)

RECURSIVE ReplaceNonDigits(_)
\* s.replace(/\D/g, '') : scan left to right, drop every char that is no digit
ReplaceNonDigits(s) ==
    IF s = <<>> THEN <<>>
    ELSE IF Head(s) \in Digits THEN <<Head(s)>> \o ReplaceNonDigits(Tail(s))
    ELSE ReplaceNonDigits(Tail(s))

RECURSIVE TrimLeft(_)
TrimLeft(s) == IF s # <<>> /\ Head(s) = " " THEN TrimLeft(Tail(s)) ELSE s

RECURSIVE TrimRight(_)
TrimRight(s) ==
    IF s # <<>> /\ s[Len(s)] = " " THEN TrimRight(SubSeq(s, 1, Len(s) - 1)) ELSE s

\* schema option trim: true
Trim(s) == IF s = Undefined THEN Undefined ELSE TrimRight(TrimLeft(s))

----------------------------------------------------------------------------
(* Lead documents *)

Undef == "undefined"
NullSeq == <<"null">>
NoName == <<"N", "o", " ", "N", "a", "m", "e">>
NoEmail == <<"N", "o", " ", "E", "m", "a", "i", "l">>

\* A request body for a Lead; an absent key is Undefined / Undef.
LeadBody(name, phone, status, assigned) ==
    [name |-> name, phone |-> phone, email |-> Undefined, normalizedPhone |-> Undefined,
     status |-> status, assigned |-> assigned, sourceDescription |-> Undefined,
     dateCreate |-> 0, hidden |-> FALSE]

\* new Lead(data): schema setters (trim) and defaults.
NewLead(d) ==
    [name |-> Trim(d.name),
     phone |-> Trim(d.phone),
     email |-> IF d.email = Undefined THEN NullSeq ELSE d.email,
     normalizedPhone |->
        IF d.normalizedPhone # Undefined THEN d.normalizedPhone ELSE Trim(d.phone),
     status |-> IF d.status = Undef THEN "NEW" ELSE d.status,
     assigned |-> IF d.assigned = Undef THEN Null ELSE d.assigned,
     sourceDescription |->
        IF d.sourceDescription = Undefined THEN EmptyString ELSE d.sourceDescription,
     dateCreate |-> d.dateCreate,
     hidden |-> d.hidden,
     notes |-> <<>>,
     updatedByNote |-> NullSeq]

\* pre('save') hook without the normalisation step
PreSaveKeepsNormalized(doc, phoneModified) == doc

\* leadSchema.pre('save'): normalise the phone when it was modified.
PreSaveLead(doc, phoneModified) ==
    IF phoneModified
    THEN [doc EXCEPT !.normalizedPhone = ReplaceNonDigits(doc.phone)]
    ELSE doc

\* Schema validation on save: name is required (empty fails `required` too).
ValidLead(doc) == Truthy(doc.name)

\* Lead.findOne({ phone: p }) finds a document
ExistsLeadWithPhone(p) == \E l \in DOMAIN leads : leads[l].phone = p

\* { $set: updateData } with the schema's setters applied to the cast values
ApplySet(doc, u) ==
    [doc EXCEPT
        !.phone = IF u.phone # Undefined THEN Trim(u.phone) ELSE @,
        !.email = IF u.email # Undefined THEN u.email ELSE @,
        !.normalizedPhone = IF u.normalizedPhone # Undefined THEN u.normalizedPhone ELSE @,
        !.status = IF u.status # Undef THEN u.status ELSE @,
        !.assigned = IF u.assigned # Undef THEN u.assigned ELSE @]

----------------------------------------------------------------------------
(* History logger *)

HistoryEntry(leadId, actionType, adminId, req) ==
    [leadId |-> leadId, actionType |-> actionType, adminId |-> adminId, req |-> req]

\* leadsHistorySchema.actionType enum
ActionTypeEnum ==
    {"COMMENT_ADDED", "STATUS_CHANGED", "ASSIGNED_TO_MANAGER", "LEAD_CREATED",
     "LEAD_UPDATED", "LEAD_DELETED", "LEAD_HIDDEN", "LEAD_UNHIDDEN", "EMAIL_SENT",
     "CALL_MADE", "NOTE_ADDED", "PRIORITY_CHANGED", "SOURCE_UPDATED",
     "CONTACT_INFO_UPDATED", "LEAD_TRANSFERRED", "ACTION_CREATED"}

\* Faulty variant of ValidHistoryEntry: any action type is accepted.
AnyActionType(e) == TRUE

\* Mongoose validation of a LeadsHistory document before it is written
ValidHistoryEntry(e) == e.actionType \in ActionTypeEnum

\* logLeadHistory for each entry in turn; a failed write throws and ends the handler
LogAll(hist, entries, storeOk) == IF storeOk THEN hist \o entries ELSE hist

----------------------------------------------------------------------------
(* Lead handlers: create, update, bulk update, webhook ingestion *)

\* Ghost: a stored Lead already carries the submission's normalised phone.
NormalizedPhoneKnown(phone) ==
    \E l \in DOMAIN leads : leads[l].normalizedPhone = DigitsOnly(phone)

Response(op, code, id, phone) ==
    [op |-> op, code |-> code, id |-> id, phone |-> phone,
     dup |-> phone # Undefined /\ NormalizedPhoneKnown(phone),
     count |-> Cardinality(DOMAIN leads)]

\* POST /api/leads
CreateLead(caller, body, storeOk) ==
    /\ nextLeadId <= MaxLeads
    /\ Len(history) < MaxLog
    /\ LET leadData == [body EXCEPT
                !.normalizedPhone =
                    IF Truthy(body.phone) THEN ReplaceNonDigits(body.phone) ELSE @,
                !.status = IF @ = Undef THEN "NEW" ELSE @]
           doc == PreSaveLead(NewLead(leadData), leadData.phone # Undefined)
       IN IF ~ValidLead(doc)
          THEN /\ last' = Response("create", 500, 0, body.phone)
               /\ UNCHANGED <<leads, nextLeadId, history>>
          ELSE /\ leads' = leads @@ (nextLeadId :> doc)
               /\ nextLeadId' = nextLeadId + 1
               /\ history' = LogAll(history,
                    <<HistoryEntry(nextLeadId, "LEAD_CREATED", caller, 0)>>, storeOk)
               /\ last' = Response("create", IF storeOk THEN 201 ELSE 500,
                                   nextLeadId, body.phone)
    /\ UNCHANGED <<admins, teams, lots, nextReq, inflight, clock>>

\* Faulty variant of UpdateLead: the field-specific entries are written whether
\* or not the field changed.
UpdateLeadLogsAll(caller, id, updateData, storeOk) ==
    /\ Len(history) + 2 <= MaxLog
    /\ IF id \notin DOMAIN leads
       THEN /\ last' = Response("update", 404, id, updateData.phone)
            /\ UNCHANGED <<leads, history>>
       ELSE LET u == [updateData EXCEPT
                        !.normalizedPhone =
                            IF Truthy(updateData.phone)
                            THEN ReplaceNonDigits(updateData.phone) ELSE @]
                entries ==
                    <<HistoryEntry(id, "STATUS_CHANGED", caller, 0),
                      HistoryEntry(id, "ASSIGNED_TO_MANAGER", caller, 0),
                      HistoryEntry(id, "CONTACT_INFO_UPDATED", caller, 0),
                      HistoryEntry(id, "LEAD_UPDATED", caller, 0)>>
            IN /\ leads' = [leads EXCEPT ![id] = ApplySet(leads[id], u)]
               /\ history' = LogAll(history, entries, storeOk)
               /\ last' = Response("update", IF storeOk THEN 200 ELSE 500,
                                   id, updateData.phone)
    /\ UNCHANGED <<nextLeadId, admins, teams, lots, nextReq, inflight, clock>>

\* PUT /api/leads/:id
UpdateLead(caller, id, updateData, storeOk) ==
    /\ Len(history) + 2 <= MaxLog
    /\ IF id \notin DOMAIN leads
       THEN /\ last' = Response("update", 404, id, updateData.phone)
            /\ UNCHANGED <<leads, history>>
       ELSE LET original == leads[id]
                u == [updateData EXCEPT
                        !.normalizedPhone =
                            IF Truthy(updateData.phone)
                            THEN ReplaceNonDigits(updateData.phone) ELSE @]
                updated == ApplySet(original, u)
                entries ==
                    (IF original.status # updated.status
                     THEN <<HistoryEntry(id, "STATUS_CHANGED", caller, 0)>> ELSE <<>>)
                    \o (IF original.assigned # updated.assigned
                        THEN <<HistoryEntry(id, "ASSIGNED_TO_MANAGER", caller, 0)>>
                        ELSE <<>>)
                    \o (IF original.phone # updated.phone \/ original.email # updated.email
                        THEN <<HistoryEntry(id, "CONTACT_INFO_UPDATED", caller, 0)>>
                        ELSE <<>>)
                    \o <<HistoryEntry(id, "LEAD_UPDATED", caller, 0)>>
            IN /\ leads' = [leads EXCEPT ![id] = updated]
               /\ history' = LogAll(history, entries, storeOk)
               /\ last' = Response("update", IF storeOk THEN 200 ELSE 500,
                                   id, updateData.phone)
    /\ UNCHANGED <<nextLeadId, admins, teams, lots, nextReq, inflight, clock>>

\* PUT /api/leads/bulk
BulkUpdateLeads(leadIds, updateData) ==
    /\ IF leadIds = {}
       THEN /\ last' = Response("bulk", 400, 0, updateData.phone)
            /\ UNCHANGED leads
       ELSE IF leadIds \cap DOMAIN leads = {}
       THEN /\ last' = Response("bulk", 404, 0, updateData.phone)
            /\ UNCHANGED leads
       ELSE /\ leads' = [l \in DOMAIN leads |->
                            IF l \in leadIds THEN ApplySet(leads[l], updateData)
                            ELSE leads[l]]
            /\ last' = Response("bulk", 200, 0, updateData.phone)
    /\ UNCHANGED <<nextLeadId, admins, teams, lots, history, nextReq, inflight, clock>>

\* POST /api/webhook/tilda
HandleTildaWebhook(formData) ==
    /\ nextLeadId <= MaxLeads
    /\ LET normalizedPhone ==
                IF Truthy(formData.phone) THEN ReplaceNonDigits(formData.phone)
                ELSE EmptyString
           status == IF ExistsLeadWithPhone(normalizedPhone)
                     THEN "DUPLICATE" ELSE "UC_HSS56X"
           data == LeadBody(IF Truthy(formData.name) THEN formData.name ELSE NoName,
                            IF Truthy(normalizedPhone) THEN normalizedPhone
                            ELSE NoPhonePlaceholder,
                            status, Undef)
           doc == PreSaveLead(NewLead([data EXCEPT !.email = NoEmail]), TRUE)
       IN /\ leads' = leads @@ (nextLeadId :> doc)
          /\ nextLeadId' = nextLeadId + 1
          /\ last' = Response("tilda", 200, nextLeadId, formData.phone)
    /\ UNCHANGED <<admins, teams, lots, history, nextReq, inflight, clock>>

\* POST /api/integration
HandleIntegrationWebhook(body) ==
    /\ nextLeadId <= MaxLeads
    /\ IF ~Truthy(body.phone) \/ ~Truthy(body.name)
       THEN /\ last' = Response("integration", 400, 0, body.phone)
            /\ UNCHANGED <<leads, nextLeadId>>
       ELSE LET normalizedPhone == ReplaceNonDigits(body.phone)
                status == IF ExistsLeadWithPhone(normalizedPhone)
                          THEN "DUPLICATE" ELSE "UC_HSS56X"
                data == LeadBody(body.name, normalizedPhone, status, Undef)
                doc == PreSaveLead(NewLead([data EXCEPT !.email = NoEmail]), TRUE)
            IN /\ leads' = leads @@ (nextLeadId :> doc)
               /\ nextLeadId' = nextLeadId + 1
               /\ last' = Response("integration", 200, nextLeadId, body.phone)
    /\ UNCHANGED <<admins, teams, lots, history, nextReq, inflight, clock>>

----------------------------------------------------------------------------
(* Specification of the Lead store under its phone-carrying requests *)

SomeName == <<"J", "a", "n", "e">>

\* Request bodies: a name or none, a phone from PhoneInputs or none.
PhoneBodies ==
    {LeadBody(n, p, Undef, Undef) :
        n \in {SomeName, Undefined}, p \in PhoneInputs \cup {Undefined}}

\* Update payloads that touch the phone.
PhoneUpdates == {LeadBody(Undefined, p, Undef, Undef) : p \in PhoneInputs}

NoResponse ==
    [op |-> "none", code |-> 0, id |-> 0, phone |-> Undefined, dup |-> FALSE, count |-> 0]

Init ==
    /\ leads = <<>>
    /\ nextLeadId = 1
    /\ admins = [a \in {"adm"} |-> [role |-> "Admin", team |-> Null]]
    /\ teams = <<>>
    /\ lots = <<>>
    /\ history = <<>>
    /\ nextReq = 1
    /\ inflight = <<>>
    /\ clock = 0
    /\ last = NoResponse

Next ==
    \/ \E c \in DOMAIN admins, b \in PhoneBodies, ok \in BOOLEAN : CreateLead(c, b, ok)
    \/ \E c \in DOMAIN admins, id \in 1..MaxLeads, u \in PhoneUpdates, ok \in BOOLEAN :
            UpdateLead(c, id, u, ok)
    \/ \E ids \in SUBSET (1..MaxLeads), u \in PhoneUpdates : BulkUpdateLeads(ids, u)
    \/ \E b \in PhoneBodies : HandleTildaWebhook(b)
    \/ \E b \in PhoneBodies : HandleIntegrationWebhook(b)

Spec == Init /\ [][Next]_vars

\* The creation requests alone.
CreateNext ==
    \/ \E c \in DOMAIN admins, b \in PhoneBodies, ok \in BOOLEAN : CreateLead(c, b, ok)
    \/ \E b \in PhoneBodies : HandleTildaWebhook(b)
    \/ \E b \in PhoneBodies : HandleIntegrationWebhook(b)

CreateSpec == Init /\ [][CreateNext]_vars

----------------------------------------------------------------------------
(* Lead deletion and the History route (HistorySpec) *)

\* Faulty variant of DeleteLead: the Lead's History entries go with it.
DeleteLeadCascade(id) ==
    /\ IF id \notin DOMAIN leads
       THEN /\ last' = Response("deleteLead", 404, id, Undefined)
            /\ UNCHANGED <<leads, history>>
       ELSE /\ leads' = [l \in DOMAIN leads \ {id} |-> leads[l]]
            /\ history' = SelectSeq(history, LAMBDA e : e.leadId # id)
            /\ last' = Response("deleteLead", 200, id, Undefined)
    /\ UNCHANGED <<nextLeadId, admins, teams, lots, nextReq, inflight, clock>>

\* DELETE /api/leads/:id
DeleteLead(id) ==
    /\ IF id \notin DOMAIN leads
       THEN /\ last' = Response("deleteLead", 404, id, Undefined)
            /\ UNCHANGED leads
       ELSE /\ leads' = [l \in DOMAIN leads \ {id} |-> leads[l]]
            /\ last' = Response("deleteLead", 200, id, Undefined)
    /\ UNCHANGED <<nextLeadId, admins, teams, lots, history, nextReq, inflight, clock>>

\* DELETE /api/leads/bulk/delete
BulkDeleteLeads(ids) ==
    /\ IF ids = {}
       THEN /\ last' = Response("bulkDelete", 400, 0, Undefined)
            /\ UNCHANGED leads
       ELSE /\ leads' = [l \in DOMAIN leads \ ids |-> leads[l]]
            /\ last' = Response("bulkDelete", 200, 0, Undefined)
    /\ UNCHANGED <<nextLeadId, admins, teams, lots, history, nextReq, inflight, clock>>

\* POST /api/leadsHistory; an absent leadId is 0, an absent actionType or
\* adminId is Undef, description is present or not
CreateHistoryEntry(leadId, actionType, hasDescription, adminId, storeOk) ==
    /\ Len(history) < MaxLog
    /\ IF leadId = 0 \/ actionType = Undef \/ ~hasDescription \/ adminId = Undef
       THEN /\ last' = Response("createHistory", 400, leadId, Undefined)
            /\ UNCHANGED history
       ELSE LET entry == HistoryEntry(leadId, actionType, adminId, 0)
            IN IF ValidHistoryEntry(entry) /\ storeOk
               THEN /\ history' = Append(history, entry)
                    /\ last' = Response("createHistory", 201, leadId, Undefined)
               ELSE /\ last' = Response("createHistory", 500, leadId, Undefined)
                    /\ UNCHANGED history
    /\ UNCHANGED <<leads, nextLeadId, admins, teams, lots, nextReq, inflight, clock>>

StatusUpdates == {LeadBody(Undefined, Undefined, st, Undef) : st \in {"NEW", "WON"}}

HistoryNext ==
    \/ \E b \in {LeadBody(SomeName, PhonePadded, Undef, Undef)}, ok \in BOOLEAN :
            CreateLead("adm", b, ok)
    \/ \E id \in 1..MaxLeads, u \in StatusUpdates, ok \in BOOLEAN :
            UpdateLead("adm", id, u, ok)
    \/ \E id \in 1..MaxLeads : DeleteLead(id)
    \/ \E ids \in SUBSET (1..MaxLeads) : BulkDeleteLeads(ids)
    \/ \E l \in 0..MaxLeads, t \in {Undef, "NOTE_ADDED", "LOT_CREATED"},
          d \in BOOLEAN, a \in {Undef, "adm"}, ok \in BOOLEAN :
            CreateHistoryEntry(l, t, d, a, ok)

HistorySpec == Init /\ [][HistoryNext]_vars

----------------------------------------------------------------------------
(* Notes of a Lead (routes/leads/notesRoutes.js, NoteSpec) *)

SomeText == <<"h", "i">>
SomePhoto == <<"p", ".", "j", "p", "g">>

\* 'Додано фото'
PhotoAdded == <<"P", "h", "o", "t", "o">>

\* const noteText = text || note
NoteText(text, note) == IF Truthy(text) THEN text ELSE note

\* A note subdocument as the schema stores it: text as given, photo null by default.
NewNote(noteText, photo) ==
    [text |-> IF Truthy(noteText) THEN noteText ELSE EmptyString,
     photo |-> IF photo = Undefined THEN NullSeq ELSE photo]

NoteResponse(op, code, id, noteText, photo) ==
    [op |-> op, code |-> code, id |-> id, text |-> noteText, photo |-> photo,
     notesBefore |-> IF id \in DOMAIN leads THEN leads[id].notes ELSE <<>>]

\* Faulty variant of EmptyNote: a note without text is refused, photo or not.
EmptyNoteWithoutText(noteText, photo) == ~Truthy(noteText)

\* if (!noteText && !photo)
EmptyNote(noteText, photo) == ~Truthy(noteText) /\ ~Truthy(photo)

\* lead.save() of a loaded Lead whose phone was not touched
SaveLead(id, doc) ==
    IF ValidLead(doc) THEN [leads EXCEPT ![id] = PreSaveLead(doc, FALSE)] ELSE leads

\* POST /api/leads/:id/notes; the History write is wrapped in its own try/catch
AddNote(caller, id, text, note, photo, storeOk) ==
    /\ Len(history) < MaxLog
    /\ LET noteText == NoteText(text, note)
       IN IF EmptyNote(noteText, photo)
          THEN /\ last' = NoteResponse("addNote", 400, id, noteText, photo)
               /\ UNCHANGED <<leads, history>>
          ELSE IF id \notin DOMAIN leads
          THEN /\ last' = NoteResponse("addNote", 404, id, noteText, photo)
               /\ UNCHANGED <<leads, history>>
          ELSE LET lead == [leads[id] EXCEPT
                                !.notes = Append(@, NewNote(noteText, photo)),
                                !.updatedByNote =
                                    IF Truthy(noteText) THEN noteText ELSE PhotoAdded]
               IN /\ Len(leads[id].notes) < MaxNotes
                  /\ leads' = SaveLead(id, lead)
                  /\ IF ~ValidLead(lead)
                     THEN /\ last' = NoteResponse("addNote", 500, id, noteText, photo)
                          /\ UNCHANGED history
                     ELSE /\ history' = LogAll(history,
                                <<HistoryEntry(id, "COMMENT_ADDED", caller, 0)>>, storeOk)
                          /\ last' = NoteResponse("addNote", 200, id, noteText, photo)
    /\ UNCHANGED <<nextLeadId, admins, teams, lots, nextReq, inflight, clock>>

\* PUT /api/leads/:id/notes/:noteIndex (indices from 0); logCommentEdited is not
\* a function of utils/historyLogger, the call throws and the throw is caught
EditNote(caller, id, noteIndex, text, note, photo) ==
    /\ LET noteText == NoteText(text, note)
       IN IF id \notin DOMAIN leads
          THEN last' = NoteResponse("editNote", 404, id, noteText, photo) /\ UNCHANGED leads
          ELSE IF noteIndex >= Len(leads[id].notes) \/ noteIndex < 0
          THEN last' = NoteResponse("editNote", 404, id, noteText, photo) /\ UNCHANGED leads
          ELSE LET lead == [leads[id] EXCEPT
                                !.notes[noteIndex + 1].text =
                                    IF Truthy(noteText) THEN noteText ELSE EmptyString,
                                !.notes[noteIndex + 1].photo =
                                    IF photo # Undefined THEN photo ELSE @]
               IN /\ leads' = SaveLead(id, lead)
                  /\ last' = NoteResponse("editNote", IF ValidLead(lead) THEN 200 ELSE 500,
                                          id, noteText, photo)
    /\ UNCHANGED <<nextLeadId, admins, teams, lots, history, nextReq, inflight, clock>>

\* notes.splice(noteIndex, 1)
Splice(notes, noteIndex) ==
    SubSeq(notes, 1, noteIndex) \o SubSeq(notes, noteIndex + 2, Len(notes))

\* DELETE /api/leads/:id/notes/:noteIndex; logCommentDeleted is not a function
\* of utils/historyLogger either
DeleteNote(caller, id, noteIndex) ==
    /\ IF id \notin DOMAIN leads
       THEN last' = NoteResponse("deleteNote", 404, id, Undefined, Undefined)
            /\ UNCHANGED leads
       ELSE IF noteIndex >= Len(leads[id].notes) \/ noteIndex < 0
       THEN last' = NoteResponse("deleteNote", 404, id, Undefined, Undefined)
            /\ UNCHANGED leads
       ELSE LET lead == [leads[id] EXCEPT !.notes = Splice(@, noteIndex)]
            IN /\ leads' = SaveLead(id, lead)
               /\ last' = NoteResponse("deleteNote", IF ValidLead(lead) THEN 200 ELSE 500,
                                       id, Undefined, Undefined)
    /\ UNCHANGED <<nextLeadId, admins, teams, lots, history, nextReq, inflight, clock>>

TextInputs == {Undefined, EmptyString, SomeText}
PhotoInputs == {Undefined, EmptyString, SomePhoto}

\* The store at connection, holding one Lead without notes.
NoteInit ==
    /\ leads = <<PreSaveLead(NewLead(LeadBody(SomeName, PhonePadded, Undef, Undef)), TRUE)>>
    /\ nextLeadId = 2
    /\ admins = [a \in {"adm"} |-> [role |-> "Admin", team |-> Null]]
    /\ teams = <<>>
    /\ lots = <<>>
    /\ history = <<>>
    /\ nextReq = 1
    /\ inflight = <<>>
    /\ clock = 0
    /\ last = NoteResponse("none", 0, 0, Undefined, Undefined)

NoteNext ==
    \/ \E id \in 1..2, t \in TextInputs, n \in {Undefined, SomeText},
          p \in PhotoInputs, ok \in BOOLEAN : AddNote("adm", id, t, n, p, ok)
    \/ \E id \in 1..2, i \in -1..MaxNotes, t \in TextInputs, p \in PhotoInputs :
            EditNote("adm", id, i, t, Undefined, p)
    \/ \E id \in 1..2, i \in -1..MaxNotes : DeleteNote("adm", id, i)

NoteSpec == NoteInit /\ [][NoteNext]_vars

----------------------------------------------------------------------------
(* Lead list filters (utils/leadHelpers.js) *)

IsPrefix(p, s) == Len(p) <= Len(s) /\ SubSeq(s, 1, Len(p)) = p

Contains(s, p) == \E i \in 0..(Len(s) - Len(p)) : SubSeq(s, i + 1, i + Len(p)) = p

NoAssigned == [kind |-> "none", ids |-> {}]
AssignedEq(id) == [kind |-> "eq", ids |-> {id}]
AssignedIn(ids) == [kind |-> "in", ids |-> ids]

\* A query parameter as Express parses it: absent, a string (a sequence of
\* characters, a status name counting as one character) or an array of strings.
Absent == [type |-> "undefined", text |-> <<>>, items |-> {}]
Text(s) == [type |-> "string", text |-> s, items |-> {}]
List(items) == [type |-> "array", text |-> <<>>, items |-> items]

\* filter.status: no key, a value, { $in: [...] } or { $nin: [...] }
NoStatus == [kind |-> "none", vals |-> {}]
StatusEq(v) == [kind |-> "eq", vals |-> {v}]
StatusIn(vs) == [kind |-> "in", vals |-> vs]
StatusNin(vs) == [kind |-> "nin", vals |-> vs]

EmptyFilter ==
    [hidden |-> Undef, assigned |-> NoAssigned, status |-> NoStatus,
     or |-> {}, and |-> <<>>, dateFrom |-> -1, dateTo |-> -1]

\* A query parameter of GET /api/leads is absent (Undef, Undefined, {} or -1) or set.
LeadQuery(assigned, team, status, search, source, dateFrom, dateTo) ==
    [assigned |-> assigned, team |-> team,
     status |-> IF status = Undef THEN Absent ELSE Text(<<status>>),
     statusMode |-> Undef, statuses |-> Absent, search |-> search,
     sourceDescription |-> source, dateFrom |-> dateFrom, dateTo |-> dateTo,
     hidden |-> Undef]

createPhoneSearchConditions(search) ==
    LET normalizedSearch == ReplaceNonDigits(search)
        pre(f, p) == [field |-> f, kind |-> "prefix", pat |-> p]
        both(p) == {pre("normalizedPhone", p), pre("phone", p)}
        patterns ==
            IF Len(normalizedSearch) < 3 THEN {}
            ELSE IF IsPrefix(<<"3", "8", "0">>, normalizedSearch)
            THEN {<<"+">> \o normalizedSearch,
                  <<"0">> \o SubSeq(normalizedSearch, 4, Len(normalizedSearch))}
            ELSE IF IsPrefix(<<"0">>, normalizedSearch) /\ Len(normalizedSearch) > 3
            THEN {<<"3", "8", "0">> \o Tail(normalizedSearch),
                  <<"+", "3", "8", "0">> \o Tail(normalizedSearch)}
            ELSE {<<"3", "8", "0">> \o normalizedSearch,
                  <<"+", "3", "8", "0">> \o normalizedSearch,
                  <<"0">> \o normalizedSearch}
    IN {pre("name", search), pre("email", search), pre("phone", search)}
       \cup (IF Len(normalizedSearch) > 0
             THEN {pre("normalizedPhone", normalizedSearch)}
                  \cup UNION {both(p) : p \in patterns}
             ELSE {})

\* Faulty variant of applyRoleBasedFilter: the role restricts nothing.
applyNoRoleFilter(filter, userRole, userId, userTeam, lookupOk) == filter

\* Faulty variant of applyRoleBasedFilter: no special case for Team Fantom.
applyRoleFilterWithoutFantom(filter, userRole, userId, userTeam, lookupOk) ==
    IF userRole = Undef \/ userId = Undef THEN filter
    ELSE IF userRole \in {"Manager", "Reten"}
    THEN [filter EXCEPT !.assigned = AssignedEq(userId)]
    ELSE IF userRole = "TeamLead" /\ userTeam # Null
    THEN IF lookupOk
         THEN [filter EXCEPT !.assigned =
                AssignedIn({a \in DOMAIN admins : admins[a].team = userTeam}
                           \cup {userId})]
         ELSE [filter EXCEPT !.assigned = AssignedEq(userId)]
    ELSE filter

applyRoleBasedFilter(filter, userRole, userId, userTeam, lookupOk) ==
    IF userRole = Undef \/ userId = Undef THEN filter
    ELSE IF userTeam = "Team Fantom" THEN [filter EXCEPT !.assigned = AssignedEq(userId)]
    ELSE IF userRole \in {"Manager", "Reten"}
    THEN [filter EXCEPT !.assigned = AssignedEq(userId)]
    ELSE IF userRole = "TeamLead" /\ userTeam # Null
    THEN IF lookupOk
         THEN [filter EXCEPT !.assigned =
                AssignedIn({a \in DOMAIN admins : admins[a].team = userTeam}
                           \cup {userId})]
         ELSE [filter EXCEPT !.assigned = AssignedEq(userId)]
    ELSE filter

\* s.split(',')
RECURSIVE Split(_)
Split(s) ==
    IF \A i \in 1..Len(s) : s[i] # "," THEN <<s>>
    ELSE LET i == CHOOSE i \in 1..Len(s) :
                    s[i] = "," /\ \A j \in 1..(i - 1) : s[j] # ","
         IN <<SubSeq(s, 1, i - 1)>> \o Split(SubSeq(s, i + 1, Len(s)))

Items(seq) == {seq[i] : i \in 1..Len(seq)}

\* applyStatusFilter(filter, { status, statusMode, statuses })
applyStatusFilter(filter, q) ==
    IF /\ q.statusMode \notin {Undef, ""}
       /\ q.statuses.type = "string"
       /\ Trim(q.statuses.text) # <<>>
    THEN LET list == {Trim(x) : x \in Items(Split(q.statuses.text))} \ {<<>>}
         IN IF q.statusMode = "other" THEN [filter EXCEPT !.status = StatusNin(list)]
            ELSE IF q.statusMode = "only" THEN [filter EXCEPT !.status = StatusIn(list)]
            ELSE filter
    ELSE IF q.status.type = "undefined" \/ (q.status.type = "string" /\ q.status.text = <<>>)
    THEN filter
    ELSE IF q.status.type = "array" THEN [filter EXCEPT !.status = StatusIn(q.status.items)]
    ELSE IF \E i \in 1..Len(q.status.text) : q.status.text[i] = ","
    THEN [filter EXCEPT !.status = StatusIn(Items(Split(q.status.text)))]
    ELSE [filter EXCEPT !.status = StatusEq(q.status.text)]

\* Faulty variant of applyAssignedFilter: the requested ids replace the allow-list.
applyAssignedOverwrite(filter, assigned, userRole) ==
    IF assigned = {} THEN filter ELSE [filter EXCEPT !.assigned = AssignedIn(assigned)]

applyAssignedFilter(filter, assigned, userRole) ==
    IF assigned = {} THEN filter
    ELSE IF userRole = "TeamLead" /\ filter.assigned.kind = "in"
    THEN [filter EXCEPT !.assigned = AssignedIn(assigned \cap filter.assigned.ids)]
    ELSE IF filter.assigned.kind = "none"
    THEN [filter EXCEPT !.assigned =
            IF Cardinality(assigned) = 1
            THEN AssignedEq(CHOOSE a \in assigned : TRUE) ELSE AssignedIn(assigned)]
    ELSE filter

applySearchFilter(filter, search) ==
    IF ~Truthy(search) THEN filter
    ELSE [filter EXCEPT !.or = createPhoneSearchConditions(search)]

applySourceFilter(filter, sourceDescription) ==
    IF ~Truthy(sourceDescription) \/ Trim(sourceDescription) = EmptyString THEN filter
    ELSE LET sourceConditions ==
                {[field |-> "sourceDescription", kind |-> "contains",
                  pat |-> sourceDescription]}
         IN IF filter.or # {}
            THEN [filter EXCEPT !.or = {}, !.and = <<filter.or, sourceConditions>>]
            ELSE [filter EXCEPT !.or = sourceConditions]

IsObjectId(t) == t \in {"T_A", "T_B", "T_X"}

applyTeamFilter(filter, team, lookupOk) ==
    IF team = Undef THEN filter
    ELSE IF ~lookupOk THEN [filter EXCEPT !.assigned = AssignedIn({})]
    ELSE LET teamDocs == IF IsObjectId(team) THEN DOMAIN teams \cap {team} ELSE {}
             fromTeams == UNION {teams[t].leaderIds \cup teams[t].managerIds :
                                    t \in teamDocs}
             teamMemberIds == IF fromTeams # {} THEN fromTeams
                              ELSE {a \in DOMAIN admins : admins[a].team = team}
         IN IF teamMemberIds = {} THEN [filter EXCEPT !.assigned = AssignedIn({})]
            ELSE CASE filter.assigned.kind = "in" ->
                        [filter EXCEPT !.assigned =
                            AssignedIn(filter.assigned.ids \cap teamMemberIds)]
                   [] filter.assigned.kind = "eq" ->
                        IF filter.assigned.ids \subseteq teamMemberIds THEN filter
                        ELSE [filter EXCEPT !.assigned = AssignedIn({})]
                   [] OTHER -> [filter EXCEPT !.assigned = AssignedIn(teamMemberIds)]

applyDateFilter(filter, dateFrom, dateTo) ==
    [filter EXCEPT !.dateFrom = dateFrom, !.dateTo = dateTo]

buildLeadsFilter(query, userRole, userId, userTeam, lookupOk, teamLookupOk) ==
    LET f0 == [EmptyFilter EXCEPT !.hidden = query.hidden]
        f1 == applyRoleBasedFilter(f0, userRole, userId, userTeam, lookupOk)
        f2 == applyStatusFilter(f1, query)
        f3 == applyAssignedFilter(f2, query.assigned, userRole)
        f4 == applySearchFilter(f3, query.search)
        f5 == applySourceFilter(f4, query.sourceDescription)
        f6 == applyTeamFilter(f5, query.team, teamLookupOk)
    IN applyDateFilter(f6, query.dateFrom, query.dateTo)

MatchesCondition(lead, c) ==
    IF c.kind = "prefix" THEN IsPrefix(c.pat, lead[c.field])
    ELSE Contains(lead[c.field], c.pat)

\* Lead.find(filter): every key of the filter constrains the document.
Matches(lead, filter) ==
    /\ filter.hidden = Undef \/ lead.hidden = (filter.hidden = "true")
    /\ filter.assigned.kind = "none" \/ lead.assigned \in filter.assigned.ids
    /\ CASE filter.status.kind = "none" -> TRUE
         [] filter.status.kind = "nin" -> <<lead.status>> \notin filter.status.vals
         [] OTHER -> <<lead.status>> \in filter.status.vals
    /\ filter.or = {} \/ \E c \in filter.or : MatchesCondition(lead, c)
    /\ \A i \in 1..Len(filter.and) : \E c \in filter.and[i] : MatchesCondition(lead, c)
    /\ filter.dateFrom = -1 \/ lead.dateCreate >= filter.dateFrom
    /\ filter.dateTo = -1 \/ lead.dateCreate <= filter.dateTo

----------------------------------------------------------------------------
(* Specification of the Lead list under role scoping (ListSpec) *)

\* DELETE /api/teams/:id
DeleteTeam(caller, id) ==
    /\ IF admins[caller].role # "SuperAdmin"
       THEN /\ last' = [op |-> "deleteTeam", code |-> 403]
            /\ UNCHANGED <<admins, teams>>
       ELSE IF id \notin DOMAIN teams
       THEN /\ last' = [op |-> "deleteTeam", code |-> 404]
            /\ UNCHANGED <<admins, teams>>
       ELSE /\ admins' = [a \in DOMAIN admins |->
                            IF a \in teams[id].leaderIds \cup teams[id].managerIds
                            THEN [admins[a] EXCEPT !.team = Null] ELSE admins[a]]
            /\ teams' = [t \in DOMAIN teams \ {id} |-> teams[t]]
            /\ last' = [op |-> "deleteTeam", code |-> 200]
    /\ UNCHANGED <<leads, nextLeadId, lots, history, nextReq, inflight, clock>>

\* GET /api/leads
ListLeads(caller, query, lookupOk, teamLookupOk) ==
    /\ LET filter == buildLeadsFilter(query, admins[caller].role, caller,
                                      admins[caller].team, lookupOk, teamLookupOk)
       IN last' = [op |-> "list", code |-> 200, caller |-> caller,
                   assigned |-> query.assigned, status |-> query.status,
                   statusMode |-> query.statusMode, statuses |-> query.statuses,
                   data |-> {l \in DOMAIN leads : Matches(leads[l], filter)}]
    /\ UNCHANGED <<leads, nextLeadId, admins, teams, lots, history, nextReq, inflight, clock>>

Staff ==
    [m1 |-> [role |-> "Manager", team |-> "A"],
     tl |-> [role |-> "TeamLead", team |-> "A"],
     r2 |-> [role |-> "Reten", team |-> "B"],
     sa |-> [role |-> "SuperAdmin", team |-> Null]]

StaffTeams ==
    [T_A |-> [name |-> "A", leaderIds |-> {"tl"}, managerIds |-> {"m1"}],
     T_B |-> [name |-> "B", leaderIds |-> {}, managerIds |-> {"r2"}]]

SomeSource == <<"f", "b">>

\* Bodies of POST /api/leads: plain Leads of m1, of tl and of nobody, and Leads
\* of m1 and of r2 with a status, a source and a later day.
ListBodies ==
    {[LeadBody(SomeName, PhonePadded, x.status, x.assigned) EXCEPT
            !.sourceDescription = x.source, !.dateCreate = x.day] :
        x \in {[assigned |-> a, status |-> Undef, source |-> Undefined, day |-> 0] :
                    a \in {"m1", "tl", Undef}}
              \cup {[assigned |-> a, status |-> "WON", source |-> SomeSource, day |-> 1] :
                    a \in {"m1", "r2"}}}

\* Queries: every assigned/team combination, with the other parameters absent,
\* all present, or search with an end date.
ListQueries ==
    {LeadQuery(a, t, x.status, x.search, x.source, x.dateFrom, x.dateTo) :
        a \in {{}, {"m1"}, {"r2"}, {"r2", "tl"}},
        t \in {Undef, "T_A", "B", "T_X"},
        x \in {[status |-> Undef, search |-> Undefined, source |-> Undefined,
                dateFrom |-> -1, dateTo |-> -1],
               [status |-> "WON", search |-> <<"3", "8", "0">>, source |-> SomeSource,
                dateFrom |-> 1, dateTo |-> -1],
               [status |-> Undef, search |-> <<"3", "8", "0">>, source |-> Undefined,
                dateFrom |-> -1, dateTo |-> 0]}}

ListInit ==
    /\ leads = <<>>
    /\ nextLeadId = 1
    /\ admins = Staff
    /\ teams = StaffTeams
    /\ lots = <<>>
    /\ history = <<>>
    /\ nextReq = 1
    /\ inflight = <<>>
    /\ clock = 0
    /\ last = [op |-> "none", code |-> 0]

ListNext ==
    \/ \E b \in ListBodies : CreateLead("sa", b, TRUE)
    \/ \E c \in {"sa", "tl"}, t \in {"T_A", "T_X"} : DeleteTeam(c, t)
    \/ \E c \in {"m1", "tl", "r2"}, q \in ListQueries,
          ok \in {<<TRUE, TRUE>>, <<FALSE, TRUE>>, <<TRUE, FALSE>>} :
            ListLeads(c, q, ok[1], ok[2])

ListSpec == ListInit /\ [][ListNext]_vars

----------------------------------------------------------------------------
(* Specification of the filter builder and its lookups (FilterSpec) *)

\* buildLeadsFilter(queryWithUser) for a caller; the response records which
\* lookups ran and whether they threw.
BuildFilter(caller, query, lookupOk, teamLookupOk) ==
    /\ last' = [op |-> "filter", code |-> 200, caller |-> caller, team |-> query.team,
                roleLookup |-> IF admins[caller].role = "TeamLead"
                                  /\ admins[caller].team \notin {Null, "Team Fantom"}
                               THEN (IF lookupOk THEN "ok" ELSE "failed") ELSE "none",
                teamLookup |-> IF query.team # Undef
                               THEN (IF teamLookupOk THEN "ok" ELSE "failed") ELSE "none",
                filter |-> buildLeadsFilter(query, admins[caller].role, caller,
                                            admins[caller].team, lookupOk, teamLookupOk)]
    /\ UNCHANGED <<leads, nextLeadId, admins, teams, lots, history, nextReq, inflight, clock>>

\* Queries with an assigned and a team parameter: absent, known, unknown or
\* (team "zz") no ObjectId and no team name.
FilterQueries ==
    {LeadQuery(a, t, Undef, Undefined, Undefined, -1, -1) :
        a \in {{}, {"m1"}, {"r2"}, {"zz"}}, t \in {Undef, "T_A", "B", "T_X", "zz"}}

FilterNext ==
    \/ \E c \in {"sa", "tl"}, t \in {"T_A", "T_B", "T_X"} : DeleteTeam(c, t)
    \/ \E c \in DOMAIN Staff, q \in FilterQueries, ok \in BOOLEAN, tok \in BOOLEAN :
            BuildFilter(c, q, ok, tok)

FilterSpec == ListInit /\ [][FilterNext]_vars


FantomStaff ==
    [fa |-> [role |-> "Admin", team |-> "Team Fantom"],
     ft |-> [role |-> "TeamLead", team |-> "Team Fantom"],
     fs |-> [role |-> "SuperAdmin", team |-> "Team Fantom"],
     m1 |-> [role |-> "Manager", team |-> "A"]]

FantomTeams ==
    [T_A |-> [name |-> "A", leaderIds |-> {}, managerIds |-> {"m1"}],
     T_B |-> [name |-> "Team Fantom", leaderIds |-> {"ft"}, managerIds |-> {"fa", "fs"}]]

\* Bodies of POST /api/leads: Leads of the SuperAdmin, of the Manager and of
\* nobody, and a Lead of the TeamLead with a status.
FantomBodies ==
    {LeadBody(SomeName, PhonePadded, Undef, a) : a \in {"fs", "m1", Undef}}
        \cup {LeadBody(SomeName, PhonePadded, "WON", "ft")}

\* Queries: every assigned/team combination, with the other parameters absent
\* or with a status, a search and an end date.
FantomQueries ==
    {LeadQuery(a, t, x.status, x.search, Undefined, -1, x.dateTo) :
        a \in {{}, {"m1"}, {"m1", "fa", "ft"}},
        t \in {Undef, "T_A", "Team Fantom", "T_X"},
        x \in {[status |-> Undef, search |-> Undefined, dateTo |-> -1],
               [status |-> "WON", search |-> <<"3", "8", "0">>, dateTo |-> 0]}}

FantomInit ==
    /\ leads = <<>>
    /\ nextLeadId = 1
    /\ admins = FantomStaff
    /\ teams = FantomTeams
    /\ lots = <<>>
    /\ history = <<>>
    /\ nextReq = 1
    /\ inflight = <<>>
    /\ clock = 0
    /\ last = [op |-> "none", code |-> 0]

FantomNext ==
    \/ \E b \in FantomBodies : CreateLead("fs", b, TRUE)
    \/ \E c \in {"fa", "ft", "fs"}, q \in FantomQueries,
          ok \in {<<TRUE, TRUE>>, <<FALSE, TRUE>>, <<TRUE, FALSE>>} :
            ListLeads(c, q, ok[1], ok[2])

FantomSpec == FantomInit /\ [][FantomNext]_vars

----------------------------------------------------------------------------
(* Team routes (routes/teams.js) over the Team and Admin collections (TeamSpec) *)

\* authorizeRoles(roles) of the Team and Lot routes: the caller's role is listed
authorizeRoles(roles, caller) == admins[caller].role \in roles

\* An id array a request body does not carry.
UndefinedIds == {"undefined"}

\* name.trim() of the names the requests carry
TrimName(n) == CASE n = " C" -> "C" [] n = " " -> "" [] OTHER -> n

TeamResponse(op, code) == [op |-> op, code |-> code]

\* Admin.updateMany({ _id: { $in: ids } }, { $set: { team } }) or { $unset: { team } }
SetAdminTeam(adm, ids, team) ==
    [a \in DOMAIN adm |-> IF a \in ids THEN [adm[a] EXCEPT !.team = team] ELSE adm[a]]

\* The _id a new Team document gets.
NewTeamId == "T_X"

\* POST /api/teams; name is absent (Undef) or a string
CreateTeam(caller, name, leaderIds, managerIds) ==
    /\ NewTeamId \notin DOMAIN teams
    /\ IF ~authorizeRoles({"SuperAdmin"}, caller)
       THEN /\ last' = TeamResponse("createTeam", 403)
            /\ UNCHANGED <<admins, teams>>
       ELSE IF name = Undef \/ TrimName(name) = ""
       THEN /\ last' = TeamResponse("createTeam", 400)
            /\ UNCHANGED <<admins, teams>>
       ELSE IF \E t \in DOMAIN teams : teams[t].name = TrimName(name)
       THEN /\ last' = TeamResponse("createTeam", 400)
            /\ UNCHANGED <<admins, teams>>
       ELSE /\ teams' = teams @@ (NewTeamId :>
                            [name |-> TrimName(name), leaderIds |-> leaderIds,
                             managerIds |-> managerIds])
            /\ admins' = SetAdminTeam(admins, leaderIds \cup managerIds, TrimName(name))
            /\ last' = TeamResponse("createTeam", 201)
    /\ UNCHANGED <<leads, nextLeadId, lots, history, nextReq, inflight, clock>>

\* PUT /api/teams/:id; name, leaderIds and managerIds are absent (Undef, UndefinedIds) or given
UpdateTeam(caller, id, name, leaderIds, managerIds) ==
    /\ IF ~authorizeRoles({"SuperAdmin"}, caller)
       THEN /\ last' = TeamResponse("updateTeam", 403)
            /\ UNCHANGED <<admins, teams>>
       ELSE IF id \notin DOMAIN teams
       THEN /\ last' = TeamResponse("updateTeam", 404)
            /\ UNCHANGED <<admins, teams>>
       ELSE IF name # Undef /\ TrimName(name) = ""
       THEN /\ last' = TeamResponse("updateTeam", 400)
            /\ UNCHANGED <<admins, teams>>
       ELSE IF name # Undef
               /\ \E t \in DOMAIN teams \ {id} : teams[t].name = TrimName(name)
       THEN /\ last' = TeamResponse("updateTeam", 400)
            /\ UNCHANGED <<admins, teams>>
       ELSE LET team == [name |-> IF name # Undef THEN TrimName(name) ELSE teams[id].name,
                         leaderIds |-> IF leaderIds # UndefinedIds THEN leaderIds
                                       ELSE teams[id].leaderIds,
                         managerIds |-> IF managerIds # UndefinedIds THEN managerIds
                                        ELSE teams[id].managerIds]
                allOldMemberIds == teams[id].leaderIds \cup teams[id].managerIds
                allNewMemberIds == team.leaderIds \cup team.managerIds
                removedUserIds == allOldMemberIds \ allNewMemberIds
                addedUserIds == allNewMemberIds \ allOldMemberIds
            IN /\ teams' = [teams EXCEPT ![id] = team]
               /\ admins' = SetAdminTeam(SetAdminTeam(admins, removedUserIds, Null),
                                         addedUserIds, team.name)
               /\ last' = TeamResponse("updateTeam", 200)
    /\ UNCHANGED <<leads, nextLeadId, lots, history, nextReq, inflight, clock>>

\* team.addLeader / removeLeader / addManager / removeManager
addLeader(team, userId) == [team EXCEPT !.leaderIds = @ \cup {userId}]
removeLeader(team, userId) == [team EXCEPT !.leaderIds = @ \ {userId}]
addManager(team, userId) == [team EXCEPT !.managerIds = @ \cup {userId}]
removeManager(team, userId) == [team EXCEPT !.managerIds = @ \ {userId}]

\* The four member routes share one shape: gate, (userId check,) find, method, save.
MemberRoute(op, caller, id, userId, needsUserId, team) ==
    /\ IF ~authorizeRoles({"SuperAdmin"}, caller)
       THEN /\ last' = TeamResponse(op, 403)
            /\ UNCHANGED teams
       ELSE IF needsUserId /\ userId = Undef
       THEN /\ last' = TeamResponse(op, 400)
            /\ UNCHANGED teams
       ELSE IF id \notin DOMAIN teams
       THEN /\ last' = TeamResponse(op, 404)
            /\ UNCHANGED teams
       ELSE /\ teams' = [teams EXCEPT ![id] = team]
            /\ last' = TeamResponse(op, 200)
    /\ UNCHANGED <<leads, nextLeadId, admins, lots, history, nextReq, inflight, clock>>

\* POST /api/teams/:id/leaders
AddLeader(caller, id, userId) ==
    MemberRoute("addLeader", caller, id, userId, TRUE,
                IF id \in DOMAIN teams THEN addLeader(teams[id], userId) ELSE Null)

\* DELETE /api/teams/:id/leaders/:userId
RemoveLeader(caller, id, userId) ==
    MemberRoute("removeLeader", caller, id, userId, FALSE,
                IF id \in DOMAIN teams THEN removeLeader(teams[id], userId) ELSE Null)

\* POST /api/teams/:id/managers
AddManager(caller, id, userId) ==
    MemberRoute("addManager", caller, id, userId, TRUE,
                IF id \in DOMAIN teams THEN addManager(teams[id], userId) ELSE Null)

\* DELETE /api/teams/:id/managers/:userId
RemoveManager(caller, id, userId) ==
    MemberRoute("removeManager", caller, id, userId, FALSE,
                IF id \in DOMAIN teams THEN removeManager(teams[id], userId) ELSE Null)

\* POST /api/teams/bulk
BulkTeams(caller, operation, ids, userId) ==
    /\ IF ~authorizeRoles({"SuperAdmin"}, caller)
       THEN /\ last' = TeamResponse("bulkTeams", 403)
            /\ UNCHANGED teams
       ELSE IF operation = Undef \/ ids = UndefinedIds
       THEN /\ last' = TeamResponse("bulkTeams", 400)
            /\ UNCHANGED teams
       ELSE IF operation = "delete"
       THEN /\ teams' = [t \in DOMAIN teams \ ids |-> teams[t]]
            /\ last' = TeamResponse("bulkTeams", 200)
       ELSE IF operation \in {"addLeader", "addManager"}
       THEN IF userId = Undef
            THEN /\ last' = TeamResponse("bulkTeams", 400)
                 /\ UNCHANGED teams
            ELSE /\ teams' = [t \in DOMAIN teams |->
                                IF t \notin ids THEN teams[t]
                                ELSE IF operation = "addLeader"
                                THEN addLeader(teams[t], userId)
                                ELSE addManager(teams[t], userId)]
                 /\ last' = TeamResponse("bulkTeams", 200)
       ELSE /\ last' = TeamResponse("bulkTeams", 400)
            /\ UNCHANGED teams
    /\ UNCHANGED <<leads, nextLeadId, admins, lots, history, nextReq, inflight, clock>>

TeamNames == {Undef, "A", " C", " "}

TeamIds == {"T_A", "T_X"}

MemberInputs == {UndefinedIds, {}, {"r2"}}

\* The store at connection: the staff and their two Teams, membership in sync.
TeamInit ==
    /\ leads = <<>>
    /\ nextLeadId = 1
    /\ admins = Staff
    /\ teams = StaffTeams
    /\ lots = <<>>
    /\ history = <<>>
    /\ nextReq = 1
    /\ inflight = <<>>
    /\ clock = 0
    /\ last = TeamResponse("none", 0)

TeamNext ==
    \/ \E c \in {"sa", "tl"}, n \in TeamNames, l \in MemberInputs \ {UndefinedIds},
          m \in MemberInputs \ {UndefinedIds} : CreateTeam(c, n, l, m)
    \/ \E c \in {"sa", "tl"}, id \in TeamIds, n \in TeamNames, l \in MemberInputs,
          m \in MemberInputs : UpdateTeam(c, id, n, l, m)
    \/ \E c \in {"sa", "tl"}, id \in TeamIds : DeleteTeam(c, id)
    \/ \E c \in {"sa", "tl"}, id \in TeamIds, u \in {Undef, "r2"} : AddLeader(c, id, u)
    \/ \E c \in {"sa", "tl"}, id \in TeamIds, u \in {"tl", "r2"} : RemoveLeader(c, id, u)
    \/ \E c \in {"sa", "tl"}, id \in TeamIds, u \in {Undef, "r2"} : AddManager(c, id, u)
    \/ \E c \in {"sa", "tl"}, id \in TeamIds, u \in {"m1", "r2"} : RemoveManager(c, id, u)
    \/ \E c \in {"sa", "tl"}, op \in {Undef, "delete", "addLeader", "addManager", "rename"},
          ids \in {UndefinedIds, {"T_B"}, {"T_A", "T_X"}}, u \in {Undef, "r2"} :
            BulkTeams(c, op, ids, u)

TeamSpec == TeamInit /\ [][TeamNext]_vars

----------------------------------------------------------------------------
(* Lot documents and their instance methods (models/Lot.js) *)

LotStatusEnum == {"ACTIVE", "ARCHIVED", "CANCELLED"}

\* A Lot document. created and reqs are ghosts: the amount it was created with
\* and the requests whose write to it is in the store.
NewLot(leadId, amount, assignedTo, team, future) ==
    [leadId |-> leadId, amount |-> amount, assignedTo |-> assignedTo, team |-> team,
     future |-> future, amountHistory |-> <<>>, status |-> "ACTIVE",
     isDeleted |-> FALSE, deletedAt |-> 0, deletedBy |-> Null,
     created |-> amount, reqs |-> {}]

\* Schema validators and the two pre('save') hooks.
ValidLot(doc, isNew) ==
    /\ doc.amount >= 0
    /\ doc.status \in LotStatusEnum
    /\ isNew => ~doc.future

\* Faulty variant of updateAmount: the amount is overwritten before the entry is built.
updateAmountOverwriteFirst(doc, newAmount) ==
    [doc EXCEPT !.amount = newAmount,
                !.amountHistory = Append(@, [previousAmount |-> newAmount,
                                             newAmount |-> newAmount])]

\* lot.updateAmount(newAmount, ...) up to its save; the caller handles the throw
\* on an equal amount (Throws).
updateAmount(doc, newAmount) ==
    [doc EXCEPT !.amountHistory = Append(@, [previousAmount |-> doc.amount,
                                             newAmount |-> newAmount]),
                !.amount = newAmount]

updateAmountThrows(doc, newAmount) == doc.amount = newAmount

softDelete(doc, deletedBy, now) ==
    [doc EXCEPT !.isDeleted = TRUE, !.deletedAt = now, !.deletedBy = deletedBy,
                !.status = "ARCHIVED"]

restore(doc) ==
    [doc EXCEPT !.isDeleted = FALSE, !.deletedAt = 0, !.deletedBy = Null,
                !.status = "ACTIVE"]

----------------------------------------------------------------------------
(* Transactions of the Lot controller *)

\* Faulty variant of SaveLot: the document is saved outside the session.
SaveLotOutsideSession(id, doc, isNew, req) ==
    [kind |-> "lot", id |-> id, doc |-> [doc EXCEPT !.reqs = @ \cup {req}],
     valid |-> ValidLot(doc, isNew), inSession |-> FALSE]

\* lot.save({ session }) / this.save() of a document loaded with .session(session)
SaveLot(id, doc, isNew, req) ==
    [kind |-> "lot", id |-> id, doc |-> [doc EXCEPT !.reqs = @ \cup {req}],
     valid |-> ValidLot(doc, isNew), inSession |-> TRUE]

\* historyEntry.save({ session })
SaveHistory(entry) ==
    [kind |-> "history", id |-> 0, doc |-> entry,
     valid |-> ValidHistoryEntry(entry), inSession |-> TRUE]

ApplyWrite(st, w) ==
    IF w.kind = "lot"
    THEN [st EXCEPT !.lots = IF w.id \in 1..Len(@) THEN [@ EXCEPT ![w.id] = w.doc]
                              ELSE Append(@, w.doc)]
    ELSE [st EXCEPT !.history = Append(@, w.doc)]

RECURSIVE ApplyAll(_, _)
ApplyAll(st, ws) ==
    IF ws = <<>> THEN st ELSE ApplyAll(ApplyWrite(st, Head(ws)), Tail(ws))

\* startTransaction ... commitTransaction / abortTransaction around the writes ws.
\* failAt is the write the database rejects (Len(ws) + 1: the commit; 0: none;
\* above that: a step after the commit).
\* A write that throws ends the try block; the catch aborts the transaction.
Transaction(ws, failAt) ==
    LET bad == {i \in 1..Len(ws) : ~ws[i].valid \/ i = failAt}
        firstBad == IF bad = {} THEN 0 ELSE CHOOSE i \in bad : \A j \in bad : i <= j
        executed == IF firstBad = 0 THEN ws ELSE SubSeq(ws, 1, firstBad - 1)
        committed == firstBad = 0 /\ failAt # Len(ws) + 1
        effective == SelectSeq(executed, LAMBDA w : committed \/ ~w.inSession)
    IN [store |-> ApplyAll([lots |-> lots, history |-> history], effective),
        committed |-> committed,
        validation |-> firstBad # 0 /\ ~ws[firstBad].valid,
        stage |-> IF committed THEN "committed"
                  ELSE IF firstBad = 0 THEN "commit" ELSE ws[firstBad].kind]

----------------------------------------------------------------------------
(* Lot controller (controllers/lotController.js) and its routes *)

\* A request's amount: absent, a number, or text that parseFloat turns into NaN.
AmountAbsent == [kind |-> "absent", val |-> 0]
AmountText == [kind |-> "text", val |-> 0]
Amount(n) == [kind |-> "num", val |-> n]

FalsyAmount(a) == a.kind = "absent" \/ (a.kind = "num" /\ a.val = 0)
InvalidAmount(a) == a.kind = "text" \/ a.val < 0

\* Faulty variant of SameAmount: the controller's equality check never fires.
NeverSameAmount(previousAmount, parsedAmount) == FALSE

SameAmount(previousAmount, parsedAmount) == previousAmount = parsedAmount

Here == [lots |-> lots, history |-> history]

\* try / catch / finally of a Lot handler: the calls that finished the
\* transaction, whether endSession ran, and the responses sent. Every return
\* inside try follows an abortTransaction; catch calls abortTransaction and then
\* responds; finally ends the session. failAt = 4 is lot.populate throwing after
\* the commit (deleteLot has no populate): abortTransaction on a committed
\* transaction throws in the catch block, before its response. The role gate
\* is middleware and runs before the session starts.
Control(op, stage, failAt) ==
    LET afterCommit == stage = "committed" /\ failAt = 4 /\ op # "deleteLot"
    IN [txn |-> IF stage = "gate" THEN <<>>
                ELSE IF stage # "committed" THEN <<"abort">>
                ELSE IF afterCommit THEN <<"commit", "abort">> ELSE <<"commit">>,
        ended |-> stage # "gate",
        responses |-> IF afterCommit THEN 0 ELSE 1]

\* What a Lot handler leaves behind: the store and the response (code 0: none),
\* with the store before the request kept for the properties.
Finish(op, code, caller, id, amount, failAt, stage, store) ==
    /\ lots' = store.lots
    /\ history' = store.history
    /\ last' = [op |-> op,
                code |-> IF Control(op, stage, failAt).responses = 0 THEN 0 ELSE code,
                req |-> nextReq, caller |-> caller, id |-> id,
                amount |-> amount, fail |-> failAt, stage |-> stage, data |-> {},
                lotsBefore |-> lots, historyBefore |-> history,
                control |-> Control(op, stage, failAt)]
    /\ nextReq' = nextReq + 1
    /\ UNCHANGED <<leads, nextLeadId, admins, teams, inflight, clock>>

FoundLot(id) == id \in 1..Len(lots) /\ ~lots[id].isDeleted

\* Faulty variant of NotOwnLead: a Reten may use any Lead.
AnyLead(adminRole, assigned, adminId) == FALSE

\* createLot: a Reten may only use a Lead assigned to them
NotOwnLead(adminRole, assigned, adminId) == adminRole = "Reten" /\ assigned # adminId

\* POST /api/lots; the response names the Lead as id
CreateLot(caller, body, failAt) ==
    /\ nextReq <= MaxRequests
    /\ LET fin(code, stage, store) ==
                Finish("createLot", code, caller, body.leadId, body.amount, failAt,
                       stage, store)
           role == admins[caller].role
       IN IF ~authorizeRoles({"Reten", "Admin"}, caller) THEN fin(403, "gate", Here)
          ELSE IF FalsyAmount(body.amount) THEN fin(400, "validation", Here)
          ELSE IF InvalidAmount(body.amount) \/ body.future THEN fin(400, "validation", Here)
          ELSE IF body.leadId \notin DOMAIN leads THEN fin(404, "find", Here)
          ELSE IF NotOwnLead(role, leads[body.leadId].assigned, caller)
          THEN fin(403, "access", Here)
          ELSE LET lead == leads[body.leadId]
                   lot == NewLot(body.leadId, body.amount.val,
                                 IF lead.assigned # Null THEN lead.assigned ELSE caller,
                                 admins[caller].team, body.future)
                   t == Transaction(
                          <<SaveLot(Len(lots) + 1, lot, TRUE, nextReq),
                            SaveHistory(HistoryEntry(body.leadId, "LOT_CREATED",
                                                     caller, nextReq))>>, failAt)
               IN fin(IF t.committed THEN 201 ELSE IF t.validation THEN 400 ELSE 500,
                      t.stage, t.store)

\* PATCH /api/lots/:id/amount
UpdateLotAmount(caller, id, amount, failAt) ==
    /\ nextReq <= MaxRequests
    /\ LET fin(code, stage, store) ==
                Finish("updateLotAmount", code, caller, id, amount, failAt, stage, store)
           role == admins[caller].role
       IN IF ~authorizeRoles({"Reten", "Admin"}, caller) THEN fin(403, "gate", Here)
          ELSE IF FalsyAmount(amount) THEN fin(400, "validation", Here)
          ELSE IF InvalidAmount(amount) THEN fin(400, "validation", Here)
          ELSE IF ~FoundLot(id) THEN fin(404, "find", Here)
          ELSE IF role \in {"Reten", "Manager"} /\ lots[id].assignedTo # caller
          THEN fin(403, "access", Here)
          ELSE IF SameAmount(lots[id].amount, amount.val) THEN fin(400, "same", Here)
          ELSE IF updateAmountThrows(lots[id], amount.val) THEN fin(500, "throw", Here)
          ELSE LET t == Transaction(
                          <<SaveLot(id, updateAmount(lots[id], amount.val), FALSE, nextReq),
                            SaveHistory(HistoryEntry(lots[id].leadId, "LOT_AMOUNT_UPDATED",
                                                     caller, nextReq))>>, failAt)
               IN fin(IF t.committed THEN 200 ELSE 500, t.stage, t.store)

\* DELETE /api/lots/:id
DeleteLot(caller, id, failAt) ==
    /\ nextReq <= MaxRequests
    /\ LET fin(code, stage, store) ==
                Finish("deleteLot", code, caller, id, AmountAbsent, failAt, stage, store)
       IN IF ~authorizeRoles({"Admin"}, caller) THEN fin(403, "gate", Here)
          ELSE IF ~FoundLot(id) THEN fin(404, "find", Here)
          ELSE IF admins[caller].role # "Admin" THEN fin(403, "access", Here)
          ELSE LET t == Transaction(
                          <<SaveLot(id, softDelete(lots[id], caller, nextReq), FALSE, nextReq),
                            SaveHistory(HistoryEntry(lots[id].leadId, "LOT_DELETED",
                                                     caller, nextReq))>>, failAt)
               IN fin(IF t.committed THEN 200 ELSE 500, t.stage, t.store)

\* GET /api/lots; status is absent (Undef), empty or a status name.
GetLots(caller, status) ==
    /\ LET role == admins[caller].role
           effective == IF status = Undef THEN "ACTIVE" ELSE status
           visible(l) ==
                /\ ~lots[l].isDeleted
                /\ role \in {"Reten", "Manager"} => lots[l].assignedTo = caller
                /\ role = "TeamLead" => lots[l].team = admins[caller].team
                /\ effective # "" => lots[l].status = effective
       IN last' = [op |-> "getLots", code |-> 200, req |-> 0, caller |-> caller, id |-> 0,
                   amount |-> AmountAbsent, fail |-> 0, stage |-> "find",
                   data |-> {l \in 1..Len(lots) : visible(l)},
                   lotsBefore |-> lots, historyBefore |-> history]
    /\ UNCHANGED <<leads, nextLeadId, admins, teams, lots, history, nextReq, inflight, clock>>

----------------------------------------------------------------------------
(* Specification of the Lot controller over a store that holds Lots (LotSpec) *)

LotStaff ==
    [ad |-> [role |-> "Admin", team |-> Null],
     r1 |-> [role |-> "Reten", team |-> "A"],
     r2 |-> [role |-> "Reten", team |-> "A"],
     m1 |-> [role |-> "Manager", team |-> "A"]]

AmountInputs == {AmountAbsent, AmountText, Amount(-5), Amount(0), Amount(1000), Amount(1500)}

LotBodies ==
    {[leadId |-> l, amount |-> a, future |-> f] :
        l \in {1, 2}, a \in AmountInputs, f \in BOOLEAN}

\* The store at connection: one Lead of r1, a Lot of r1 and a Lot of r2 that
\* is active or was soft-deleted by the Admin.
LotInit ==
    /\ leads = <<PreSaveLead(NewLead(LeadBody(SomeName, PhonePadded, Undef, "r1")), TRUE)>>
    /\ nextLeadId = 2
    /\ admins = LotStaff
    /\ teams = <<>>
    /\ \E a \in {1000, 1500}, deleted \in BOOLEAN :
            lots = <<NewLot(1, a, "r1", "A", FALSE),
                     IF deleted THEN softDelete(NewLot(1, 1500, "r2", "A", FALSE), "ad", 1)
                     ELSE NewLot(1, 1500, "r2", "A", FALSE)>>
    /\ history = <<>>
    /\ nextReq = 1
    /\ inflight = <<>>
    /\ clock = 0
    /\ last = [op |-> "none", code |-> 0, req |-> 0, caller |-> "ad", id |-> 0,
               amount |-> AmountAbsent, fail |-> 0, stage |-> "none", data |-> {},
               lotsBefore |-> lots, historyBefore |-> history]

LotNext ==
    \/ \E c \in DOMAIN LotStaff, b \in LotBodies, f \in 0..4 : CreateLot(c, b, f)
    \/ \E c \in DOMAIN LotStaff, id \in 1..3, a \in AmountInputs, f \in 0..4 :
            UpdateLotAmount(c, id, a, f)
    \/ \E c \in DOMAIN LotStaff, id \in 1..3, f \in 0..4 : DeleteLot(c, id, f)
    \/ \E c \in DOMAIN LotStaff, st \in {Undef, "", "ARCHIVED"} : GetLots(c, st)

LotSpec == LotInit /\ [][LotNext]_vars

----------------------------------------------------------------------------
(* The payout handler of the Lot controller (PayoutSpec) *)

\* Faulty variant of PayoutDenied: the team of a TeamLead is not compared.
PayoutDeniedByRoleOnly(adminRole, adminTeam, lotTeam) ==
    adminRole # "Admin" /\ adminRole # "TeamLead"

\* updateLotPayout: only Admin and TeamLead, a TeamLead only within their team
PayoutDenied(adminRole, adminTeam, lotTeam) ==
    \/ adminRole # "Admin" /\ adminRole # "TeamLead"
    \/ adminRole = "TeamLead" /\ lotTeam # adminTeam

\* lot.payoutAmount = ...; lot.isPaid = ... : neither is a path of lotSchema, so
\* the assignments stay on the in-memory object and the saved document is as loaded.
SetPayout(doc, payoutAmount, isPaid) == doc

\* LotController.updateLotPayout; isPaid is absent (Undef), "true" or "false"
UpdateLotPayout(caller, id, payoutAmount, isPaid, failAt) ==
    /\ nextReq <= MaxRequests
    /\ LET fin(code, stage, store) ==
                Finish("updateLotPayout", code, caller, id, payoutAmount, failAt,
                       stage, store)
       IN IF payoutAmount = AmountAbsent /\ isPaid = Undef THEN fin(400, "validation", Here)
          ELSE IF payoutAmount # AmountAbsent /\ InvalidAmount(payoutAmount)
          THEN fin(400, "validation", Here)
          ELSE IF ~FoundLot(id) THEN fin(404, "find", Here)
          ELSE IF PayoutDenied(admins[caller].role, admins[caller].team, lots[id].team)
          THEN fin(403, "access", Here)
          ELSE LET t == Transaction(
                          <<SaveLot(id, SetPayout(lots[id], payoutAmount, isPaid),
                                    FALSE, nextReq),
                            SaveHistory(HistoryEntry(lots[id].leadId, "LOT_PAYOUT_UPDATED",
                                                     caller, nextReq))>>, failAt)
               IN fin(IF t.committed THEN 200 ELSE 500, t.stage, t.store)

PayoutStaff ==
    [ad |-> [role |-> "Admin", team |-> Null],
     tlA |-> [role |-> "TeamLead", team |-> "A"],
     tlB |-> [role |-> "TeamLead", team |-> "B"],
     r1 |-> [role |-> "Reten", team |-> "A"],
     m1 |-> [role |-> "Manager", team |-> "A"]]

PayoutInputs == {AmountAbsent, AmountText, Amount(-5), Amount(0), Amount(500)}

\* The store at connection: a Lead of r1, a Lot of team A and a Lot of team B
\* that is active or soft-deleted.
PayoutInit ==
    /\ leads = <<PreSaveLead(NewLead(LeadBody(SomeName, PhonePadded, Undef, "r1")), TRUE)>>
    /\ nextLeadId = 2
    /\ admins = PayoutStaff
    /\ teams = <<>>
    /\ \E deleted \in BOOLEAN :
            lots = <<NewLot(1, 1000, "r1", "A", FALSE),
                     IF deleted THEN softDelete(NewLot(1, 1500, "r2", "B", FALSE), "ad", 1)
                     ELSE NewLot(1, 1500, "r2", "B", FALSE)>>
    /\ history = <<>>
    /\ nextReq = 1
    /\ inflight = <<>>
    /\ clock = 0
    /\ last = [op |-> "none", code |-> 0, req |-> 0, caller |-> "ad", id |-> 0,
               amount |-> AmountAbsent, fail |-> 0, stage |-> "none", data |-> {},
               lotsBefore |-> lots, historyBefore |-> history]

PayoutNext ==
    \/ \E c \in DOMAIN PayoutStaff, id \in 1..3, p \in PayoutInputs,
          paid \in {Undef, "true", "false"}, f \in 0..4 :
            UpdateLotPayout(c, id, p, paid, f)
    \/ \E c \in DOMAIN PayoutStaff, st \in {Undef, ""} : GetLots(c, st)

PayoutSpec == PayoutInit /\ [][PayoutNext]_vars

----------------------------------------------------------------------------
(* Specification of the Lot model's instance methods (LotModelSpec) *)

ModelAmounts == {-5, 0, 1000, 1200, 1500}

\* lot.save() outside any transaction: the store takes the document if it is valid.
ModelSave(op, id, doc, amount) ==
    /\ lots' = IF ValidLot(doc, FALSE) THEN [lots EXCEPT ![id] = doc] ELSE lots
    /\ last' = [op |-> op, ok |-> ValidLot(doc, FALSE), id |-> id, amount |-> amount]
    /\ UNCHANGED <<leads, nextLeadId, admins, teams, history, nextReq, inflight, clock>>

ModelUpdateAmount(id, newAmount) ==
    /\ Len(lots[id].amountHistory) < MaxHistory
    /\ IF updateAmountThrows(lots[id], newAmount)
       THEN /\ last' = [op |-> "updateAmount", ok |-> FALSE, id |-> id, amount |-> newAmount]
            /\ UNCHANGED <<leads, nextLeadId, admins, teams, lots, history, nextReq, inflight, clock>>
       ELSE ModelSave("updateAmount", id, updateAmount(lots[id], newAmount), newAmount)

ModelSoftDelete(id, by) ==
    ModelSave("softDelete", id, softDelete(lots[id], by, 1), lots[id].amount)

ModelRestore(id) ==
    ModelSave("restore", id, restore(lots[id]), lots[id].amount)

\* One Lot as new Lot(...).save() leaves it, with any valid amount.
LotModelInit ==
    /\ leads = <<>>
    /\ nextLeadId = 1
    /\ admins = LotStaff
    /\ teams = <<>>
    /\ \E a \in {x \in ModelAmounts : x >= 0} : lots = <<NewLot(1, a, "r1", "A", FALSE)>>
    /\ history = <<>>
    /\ nextReq = 1
    /\ inflight = <<>>
    /\ clock = 0
    /\ last = [op |-> "none", ok |-> TRUE, id |-> 0, amount |-> 0]

LotModelNext ==
    \/ \E id \in 1..Len(lots), a \in ModelAmounts : ModelUpdateAmount(id, a)
    \/ \E id \in 1..Len(lots) : ModelSoftDelete(id, "ad")
    \/ \E id \in 1..Len(lots) : ModelRestore(id)

LotModelSpec == LotModelInit /\ [][LotModelNext]_vars

\* One Lot as new Lot(...).save() stores it, with a status the schema accepts:
\* the default or CANCELLED.
LotStatusInit ==
    /\ leads = <<>>
    /\ nextLeadId = 1
    /\ admins = LotStaff
    /\ teams = <<>>
    /\ \E a \in {x \in ModelAmounts : x >= 0}, st \in {"ACTIVE", "CANCELLED"} :
            lots = <<[NewLot(1, a, "r1", "A", FALSE) EXCEPT !.status = st]>>
    /\ history = <<>>
    /\ nextReq = 1
    /\ inflight = <<>>
    /\ clock = 0
    /\ last = [op |-> "none", ok |-> TRUE, id |-> 0, amount |-> 0]

LotStatusSpec == LotStatusInit /\ [][LotModelNext]_vars

----------------------------------------------------------------------------
(* Bulk routes of a Lead (BulkSpec) *)

\* Lead.deleteMany({ _id: { $in: ids } }) outside a transaction: each matched
\* document is removed on its own. done holds the documents the server reached
\* before it answered; an error leaves the others in place.
deleteMany(ids, done) == [l \in DOMAIN leads \ (ids \cap done) |-> leads[l]]

\* Lead.updateMany({ _id: { $in: ids } }, { $set: { field: value } }) outside a
\* transaction: each matched document is written on its own.
updateMany(ids, field, value, done) ==
    [l \in DOMAIN leads |->
        IF l \in ids \cap done THEN [leads[l] EXCEPT ![field] = value] ELSE leads[l]]

\* The operation reached every matched document: it resolves, else it rejects.
Resolved(ids, done) == ids \cap DOMAIN leads \subseteq done

\* An identifier that is not an ObjectId
BadId == 0

BulkResponse(op, code, ids, field, value) ==
    [op |-> op, code |-> code, ids |-> ids, field |-> field, value |-> value,
     before |-> leads]

\* The checks every bulk route starts with: ids is a non-empty array of ObjectIds
BadIds(ids) == ids = {} \/ BadId \in ids

BulkWrite(op, ids, field, value, done) ==
    /\ leads' = IF op = "bulkDelete" THEN deleteMany(ids, done)
                ELSE updateMany(ids, field, value, done)
    /\ last' = BulkResponse(op, IF Resolved(ids, done) THEN 200 ELSE 500,
                            ids, field, value)

\* DELETE /api/leads/bulk/delete
BulkDelete(ids, done) ==
    /\ IF BadIds(ids)
       THEN /\ last' = BulkResponse("bulkDelete", 400, ids, "none", Undef)
            /\ UNCHANGED leads
       ELSE BulkWrite("bulkDelete", ids, "none", Undef, done)
    /\ UNCHANGED <<nextLeadId, admins, teams, lots, history, nextReq, inflight, clock>>

\* status.trim() of the statuses sent
TrimStatus(status) == IF status = " " THEN "" ELSE status

\* PATCH /api/leads/bulk/status
BulkStatus(ids, status, done) ==
    /\ IF BadIds(ids) \/ status \in {Undef, ""} \/ TrimStatus(status) = ""
       THEN /\ last' = BulkResponse("bulkStatus", 400, ids, "status", status)
            /\ UNCHANGED leads
       ELSE BulkWrite("bulkStatus", ids, "status", TrimStatus(status), done)
    /\ UNCHANGED <<nextLeadId, admins, teams, lots, history, nextReq, inflight, clock>>

\* PATCH /api/leads/bulk/assign; "zz" is not an ObjectId
BulkAssign(ids, assigned, done) ==
    /\ IF BadIds(ids) \/ assigned \in {Undef, "zz"}
       THEN /\ last' = BulkResponse("bulkAssign", 400, ids, "assigned", assigned)
            /\ UNCHANGED leads
       ELSE BulkWrite("bulkAssign", ids, "assigned", assigned, done)
    /\ UNCHANGED <<nextLeadId, admins, teams, lots, history, nextReq, inflight, clock>>

\* PATCH /api/leads/bulk/hide; hidden is TRUE when the body has none
BulkHide(ids, hidden, done) ==
    /\ IF BadIds(ids)
       THEN /\ last' = BulkResponse("bulkHide", 400, ids, "hidden", hidden)
            /\ UNCHANGED leads
       ELSE BulkWrite("bulkHide", ids, "hidden", hidden, done)
    /\ UNCHANGED <<nextLeadId, admins, teams, lots, history, nextReq, inflight, clock>>

\* The store holds two Leads when the bulk requests arrive.
BulkInit ==
    /\ leads = (1 :> NewLead(LeadBody(SomeName, PhonePadded, "NEW", Undef)))
               @@ (2 :> NewLead(LeadBody(SomeName, PhoneFormatted, "NEW", "m1")))
    /\ nextLeadId = 3
    /\ admins = [a \in {"adm"} |-> [role |-> "Admin", team |-> Null]]
    /\ teams = <<>>
    /\ lots = <<>>
    /\ history = <<>>
    /\ nextReq = 1
    /\ inflight = <<>>
    /\ clock = 0
    /\ last = BulkResponse("none", 0, {}, "none", Undef)

BulkIds == SUBSET (BadId..MaxLeads)

BulkNext ==
    \/ \E ids \in BulkIds, done \in SUBSET (1..MaxLeads) : BulkDelete(ids, done)
    \/ \E ids \in BulkIds, st \in {Undef, " ", "WON"}, done \in SUBSET (1..MaxLeads) :
            BulkStatus(ids, st, done)
    \/ \E ids \in BulkIds, a \in {Undef, "zz", "r2"}, done \in SUBSET (1..MaxLeads) :
            BulkAssign(ids, a, done)
    \/ \E ids \in BulkIds, h \in BOOLEAN, done \in SUBSET (1..MaxLeads) :
            BulkHide(ids, h, done)

BulkSpec == BulkInit /\ [][BulkNext]_vars

----------------------------------------------------------------------------
(* Lead CRUD routes together (CrudSpec) *)

\* Faulty variant of ToggleHidden: the flag is set, never cleared.
HideOnly(hidden) == TRUE

\* const newHiddenState = !lead.hidden
ToggleHidden(hidden) == ~hidden

\* Faulty variant of ToggleVisibility: hiding a Lead removes its document.
ToggleVisibilityRemoves(caller, id, storeOk) ==
    /\ Len(history) < MaxLog
    /\ IF id \notin DOMAIN leads
       THEN /\ last' = Response("visibility", 404, id, Undefined)
            /\ UNCHANGED <<leads, history>>
       ELSE /\ leads' = [l \in DOMAIN leads \ {id} |-> leads[l]]
            /\ history' = LogAll(history,
                    <<HistoryEntry(id, "LEAD_HIDDEN", caller, 0)>>, storeOk)
            /\ last' = Response("visibility", IF storeOk THEN 200 ELSE 500,
                                id, Undefined)
    /\ UNCHANGED <<nextLeadId, admins, teams, lots, nextReq, inflight, clock>>

\* PATCH /api/leads/:id/visibility
ToggleVisibility(caller, id, storeOk) ==
    /\ Len(history) < MaxLog
    /\ IF id = BadId
       THEN /\ last' = Response("visibility", 400, id, Undefined)
            /\ UNCHANGED <<leads, history>>
       ELSE IF id \notin DOMAIN leads
       THEN /\ last' = Response("visibility", 404, id, Undefined)
            /\ UNCHANGED <<leads, history>>
       ELSE LET newHiddenState == ToggleHidden(leads[id].hidden)
            IN /\ leads' = [leads EXCEPT ![id].hidden = newHiddenState]
               /\ history' = LogAll(history,
                    <<HistoryEntry(id, IF newHiddenState THEN "LEAD_HIDDEN"
                                       ELSE "LEAD_UNHIDDEN", caller, 0)>>, storeOk)
               /\ last' = Response("visibility", IF storeOk THEN 200 ELSE 500,
                                   id, Undefined)
    /\ UNCHANGED <<nextLeadId, admins, teams, lots, nextReq, inflight, clock>>

SomeEmail == <<"a", "@", "b">>

\* Update payloads: any of status, assigned, phone and email, new or as stored.
CrudUpdates ==
    {[LeadBody(Undefined, p, st, a) EXCEPT !.email = e] :
        p \in {Undefined, PhonePadded}, st \in {Undef, "NEW", "WON"},
        a \in {Undef, "m1"}, e \in {Undefined, SomeEmail}}

\* The store holds two Leads when the requests arrive.
CrudInit ==
    /\ leads = (1 :> NewLead(LeadBody(SomeName, PhonePadded, "NEW", Undef)))
               @@ (2 :> NewLead(LeadBody(SomeName, PhoneFormatted, "WON", "m1")))
    /\ nextLeadId = 3
    /\ admins = [a \in {"adm"} |-> [role |-> "Admin", team |-> Null]]
    /\ teams = <<>>
    /\ lots = <<>>
    /\ history = <<>>
    /\ nextReq = 1
    /\ inflight = <<>>
    /\ clock = 0
    /\ last = NoResponse

CrudNext ==
    \/ \E id \in 1..MaxLeads, u \in CrudUpdates, ok \in BOOLEAN :
            UpdateLead("adm", id, u, ok)
    \/ \E id \in 1..MaxLeads : DeleteLead(id)
    \/ \E id \in BadId..MaxLeads, ok \in BOOLEAN : ToggleVisibility("adm", id, ok)
    \/ \E ids \in SUBSET (1..MaxLeads) : BulkDelete(ids, 1..MaxLeads)

CrudSpec == CrudInit /\ [][CrudNext]_vars

----------------------------------------------------------------------------
(* Status filtering of the Lead list (StatusSpec) *)

\* Queries with status, statusMode and statuses absent or set, alone and together.
StatusQueries ==
    {[LeadQuery({}, Undef, Undef, Undefined, Undefined, -1, -1) EXCEPT
            !.status = st, !.statusMode = mode, !.statuses = sts] :
        st \in {Absent, Text(<<>>), Text(<<"NEW">>), Text(<<"NEW", ",", "WON">>),
                List({<<"WON">>})},
        mode \in {Undef, "only", "other", "all"},
        sts \in {Absent, Text(<<" ">>), Text(<<"WON">>),
                 Text(<<"NEW", ",", " ", "LOST">>), List({<<"WON">>})}}

StatusBodies == {LeadBody(SomeName, PhonePadded, st, Undef) : st \in {Undef, "WON", "LOST"}}

StatusNext ==
    \/ \E b \in StatusBodies : CreateLead("sa", b, TRUE)
    \/ \E q \in StatusQueries : ListLeads("sa", q, TRUE, TRUE)

StatusSpec == ListInit /\ [][StatusNext]_vars

----------------------------------------------------------------------------
(* Search and status counts (QuerySpec) *)

Found(filter) == {l \in DOMAIN leads : Matches(leads[l], filter)}

\* GET /api/leads/search: q is the search text, absent or blank for none
SearchLeads(caller, q) ==
    /\ IF q = Undefined \/ Trim(q) = <<>>
       THEN last' = [op |-> "search", code |-> 200, caller |-> caller, data |-> {}]
       ELSE LET query == [LeadQuery({}, Undef, Undef, q, Undefined, -1, -1)
                            EXCEPT !.hidden = "false"]
                filter == buildLeadsFilter(query, Undef, Undef, Undef, TRUE, TRUE)
            IN last' = [op |-> "search", code |-> 200, caller |-> caller,
                        data |-> Found(filter)]
    /\ UNCHANGED <<leads, nextLeadId, admins, teams, lots, history, nextReq, inflight, clock>>

\* GET /api/leads/stats/status-counts: userRole, userId and userTeam are read
\* from req.query. counts maps '' to the total and each status to its count;
\* data is the set of Leads counted.
StatusCounts(caller, query, userRole, userId, userTeam, lookupOk) ==
    /\ LET filter == buildLeadsFilter(query, userRole, userId, userTeam, lookupOk, TRUE)
           visibleStatuses ==
                IF query.statuses.type = "array" THEN query.statuses.items \ {<<>>}
                ELSE IF query.statuses.type = "string" /\ Trim(query.statuses.text) # <<>>
                THEN {Trim(x) : x \in Items(Split(query.statuses.text))} \ {<<>>}
                ELSE {}
           counted == Found(filter)
           Count(s) == Cardinality({l \in counted : <<leads[l].status>> = s})
           keys == IF visibleStatuses # {} THEN visibleStatuses
                   ELSE {<<leads[l].status>> : l \in counted}
           known == Cardinality({l \in counted : <<leads[l].status>> \in keys})
       IN last' = [op |-> "statusCounts", code |-> 200, caller |-> caller,
                   data |-> counted, total |-> Cardinality(counted),
                   counts |-> [s \in keys |-> Count(s)],
                   other |-> IF visibleStatuses # {}
                             THEN Cardinality(counted) - known ELSE 0]
    /\ UNCHANGED <<leads, nextLeadId, admins, teams, lots, history, nextReq, inflight, clock>>

\* The role parameters a client may put in the query string
ClientRoles ==
    {[userRole |-> r, userId |-> i, userTeam |-> t] :
        r \in {Undef, "Manager", "Admin"}, i \in {Undef, "m1", "r2"}, t \in {Undef, "A"}}

QueryNext ==
    \/ \E b \in ListBodies : CreateLead("sa", b, TRUE)
    \/ \E c \in {"m1", "tl", "r2"}, q \in FilterQueries : ListLeads(c, q, TRUE, TRUE)
    \/ \E c \in {"m1", "tl", "r2"}, q \in {Undefined, <<" ">>, <<"J">>, <<"3", "8">>} :
            SearchLeads(c, q)
    \/ \E c \in {"m1", "tl", "r2"}, q \in FilterQueries, u \in ClientRoles :
            StatusCounts(c, q, u.userRole, u.userId, u.userTeam, TRUE)

QuerySpec == ListInit /\ [][QueryNext]_vars

----------------------------------------------------------------------------
(* Webhook submissions between their lookup and their save (WebhookRaceSpec) *)

\* The phone a webhook looks up: both handlers strip the non-digits; the Tilda
\* handler takes "" for a missing phone.
WebhookPhone(body) ==
    IF Truthy(body.phone) THEN ReplaceNonDigits(body.phone) ELSE EmptyString

\* await Lead.findOne({ phone: normalizedPhone })
existingLead(normalizedPhone) == ExistsLeadWithPhone(normalizedPhone)

\* First half of a webhook or integration submission, up to the await of the
\* lookup: the request keeps the lookup's result while other requests run.
WebhookLookup(op, body) ==
    /\ nextReq <= MaxRequests
    /\ nextLeadId + Cardinality(DOMAIN inflight) <= MaxLeads
    /\ IF op = "integration" /\ (~Truthy(body.phone) \/ ~Truthy(body.name))
       THEN /\ last' = Response("integration", 400, 0, body.phone)
            /\ UNCHANGED inflight
       ELSE /\ inflight' = inflight @@
                    (nextReq :> [op |-> op, body |-> body,
                                 existingLead |-> existingLead(WebhookPhone(body))])
            /\ last' = [Response(op, 0, 0, body.phone) EXCEPT !.op = "lookup"]
    /\ nextReq' = nextReq + 1
    /\ UNCHANGED <<leads, nextLeadId, admins, teams, lots, history, clock>>

\* Second half: new Lead({...status}) and await lead.save(), with the status
\* decided from the lookup the request made earlier.
WebhookSave(r) ==
    /\ r \in DOMAIN inflight
    /\ LET body == inflight[r].body
           normalizedPhone == WebhookPhone(body)
           status == IF inflight[r].existingLead THEN "DUPLICATE" ELSE "UC_HSS56X"
           data == LeadBody(IF Truthy(body.name) THEN body.name ELSE NoName,
                            IF Truthy(normalizedPhone) THEN normalizedPhone
                            ELSE NoPhonePlaceholder,
                            status, Undef)
           doc == PreSaveLead(NewLead([data EXCEPT !.email = NoEmail]), TRUE)
       IN /\ leads' = leads @@ (nextLeadId :> doc)
          /\ nextLeadId' = nextLeadId + 1
          /\ last' = Response(inflight[r].op, 200, nextLeadId, body.phone)
    /\ inflight' = [q \in DOMAIN inflight \ {r} |-> inflight[q]]
    /\ UNCHANGED <<admins, teams, lots, history, nextReq, clock>>

WebhookRaceNext ==
    \/ \E op \in {"tilda", "integration"}, b \in PhoneBodies : WebhookLookup(op, b)
    \/ \E r \in 1..MaxRequests : WebhookSave(r)

WebhookRaceSpec == Init /\ [][WebhookRaceNext]_vars

----------------------------------------------------------------------------
(* Amount updates of a Lot between their awaits (AmountRaceSpec) *)

\* A request of updateLotAmount that has answered: the response code and the
\* place it ended at. with: the requests for the same Lot that were between
\* their awaits when this one read the Lot.
Answered(q, code, at) == [q EXCEPT !.stage = "done", !.code = code, !.at = at,
                                   !.pending = FALSE]

\* The WriteConflict error of a write inside a transaction: the document was
\* changed after the transaction's snapshot was taken, or another open
\* transaction holds a write to it.
WriteConflict(r) ==
    LET q == inflight[r]
    IN \/ lots[q.id] # q.lot
       \/ \E p \in DOMAIN inflight \ {r} : inflight[p].pending /\ inflight[p].id = q.id

\* What the save of a loaded document sends: $set of amount and $push of the
\* new amountHistory entry, applied to the document the store holds.
ApplyDelta(stored, doc) ==
    [stored EXCEPT !.amount = doc.amount,
                   !.amountHistory = Append(@, doc.amountHistory[Len(doc.amountHistory)]),
                   !.reqs = @ \cup doc.reqs]

\* updateLotAmount from startTransaction to the awaited findOne(...).session(session)
\* and the checks on its result; each return follows abortTransaction.
AmountFind(caller, id, amount) ==
    /\ nextReq <= MaxRequests
    /\ LET q == [stage |-> "found", caller |-> caller, id |-> id,
                 amount |-> amount.val, code |-> 0, at |-> "find", pending |-> FALSE,
                 lot |-> IF FoundLot(id) THEN lots[id] ELSE NewLot(0, 0, Null, Null, FALSE),
                 with |-> {p \in DOMAIN inflight :
                              inflight[p].stage # "done" /\ inflight[p].id = id}]
           answer(code, at) == inflight' = inflight @@ (nextReq :> Answered(q, code, at))
           role == admins[caller].role
       IN IF ~authorizeRoles({"Reten", "Admin"}, caller) THEN answer(403, "gate")
          ELSE IF FalsyAmount(amount) THEN answer(400, "validation")
          ELSE IF InvalidAmount(amount) THEN answer(400, "validation")
          ELSE IF ~FoundLot(id) THEN answer(404, "find")
          ELSE IF role \in {"Reten", "Manager"} /\ lots[id].assignedTo # caller
          THEN answer(403, "access")
          ELSE IF SameAmount(lots[id].amount, amount.val) THEN answer(400, "same")
          ELSE inflight' = inflight @@ (nextReq :> q)
    /\ nextReq' = nextReq + 1
    /\ last' = [op |-> "updateLotAmount", req |-> nextReq, step |-> "find"]
    /\ UNCHANGED <<leads, nextLeadId, admins, teams, lots, history, clock>>

\* await lot.updateAmount(parsedAmount, ...): the entry is pushed on the loaded
\* document and this.save() writes it in the document's session.
AmountSave(r) ==
    /\ r \in DOMAIN inflight
    /\ inflight[r].stage = "found"
    /\ LET q == inflight[r]
           w == SaveLot(q.id, updateAmount(q.lot, q.amount), FALSE, r)
       IN IF updateAmountThrows(q.lot, q.amount) \/ ~w.valid
          THEN /\ inflight' = [inflight EXCEPT ![r] = Answered(q, 500, "lot")]
               /\ UNCHANGED lots
          ELSE IF ~w.inSession
          THEN /\ lots' = [lots EXCEPT ![q.id] = ApplyDelta(@, w.doc)]
               /\ inflight' = [inflight EXCEPT ![r].stage = "saved"]
          ELSE IF WriteConflict(r)
          THEN /\ inflight' = [inflight EXCEPT ![r] = Answered(q, 500, "conflict")]
               /\ UNCHANGED lots
          ELSE /\ inflight' = [inflight EXCEPT ![r].stage = "saved", ![r].pending = TRUE,
                                               ![r].lot = w.doc]
               /\ UNCHANGED lots
    /\ last' = [op |-> "updateLotAmount", req |-> r, step |-> "save"]
    /\ UNCHANGED <<leads, nextLeadId, admins, teams, history, nextReq, clock>>

\* await historyEntry.save({ session }), commitTransaction and the response;
\* a throw reaches the catch: abortTransaction and 500.
AmountCommit(r) ==
    /\ r \in DOMAIN inflight
    /\ inflight[r].stage = "saved"
    /\ LET q == inflight[r]
           h == SaveHistory(HistoryEntry(q.lot.leadId, "LOT_AMOUNT_UPDATED", q.caller, r))
       IN IF ~h.valid
          THEN /\ inflight' = [inflight EXCEPT ![r] = Answered(q, 500, "history")]
               /\ UNCHANGED <<lots, history>>
          ELSE /\ lots' = IF q.pending THEN [lots EXCEPT ![q.id] = q.lot] ELSE lots
               /\ history' = Append(history, h.doc)
               /\ inflight' = [inflight EXCEPT ![r] = Answered(q, 200, "committed")]
    /\ last' = [op |-> "updateLotAmount", req |-> r, step |-> "commit"]
    /\ UNCHANGED <<leads, nextLeadId, admins, teams, nextReq, clock>>

RaceStaff == {"ad", "r1"}

RaceAmounts == {AmountAbsent, Amount(1000), Amount(1500)}

AmountRaceNext ==
    \/ \E c \in RaceStaff, id \in 1..3, a \in RaceAmounts : AmountFind(c, id, a)
    \/ \E r \in 1..MaxRequests : AmountSave(r)
    \/ \E r \in 1..MaxRequests : AmountCommit(r)

AmountRaceSpec == LotInit /\ [][AmountRaceNext]_vars

----------------------------------------------------------------------------
(* Login, logout and token refresh (routes/auth.js, AuthSpec) *)

\* jwt.sign({ id }, secret, { expiresIn: '7d' }): the token is a function of
\* the payload and of the second it is signed in (iat).
generateRefreshToken(id, iat) == [id |-> id, iat |-> iat]

\* refreshToken: null
NoToken == [id |-> Null, iat |-> 0]

\* An Admin document with its refresh token. issued, latest and out are ghosts:
\* the refresh tokens login responses handed to this Admin, the last of them,
\* and whether the Admin's last login or logout answered 200 was a logout.
AuthAdmin(role) ==
    [role |-> role, team |-> Null, refreshToken |-> NoToken,
     issued |-> {}, latest |-> NoToken, out |-> FALSE]

AuthResponse(op, code, admin, token) ==
    [op |-> op, code |-> code, admin |-> admin, token |-> token]

\* POST /api/auth/login; passwordOk is the result of comparePassword, saveOk
\* that of admin.save().
Login(login, passwordOk, saveOk) ==
    /\ LET refreshToken == generateRefreshToken(login, clock)
       IN IF login \notin DOMAIN admins \/ ~passwordOk
          THEN /\ last' = AuthResponse("login", 401, login, NoToken)
               /\ UNCHANGED admins
          ELSE IF ~saveOk
          THEN /\ last' = AuthResponse("login", 500, login, NoToken)
               /\ UNCHANGED admins
          ELSE /\ admins' = [admins EXCEPT ![login].refreshToken = refreshToken,
                                           ![login].issued = @ \cup {refreshToken},
                                           ![login].latest = refreshToken,
                                           ![login].out = FALSE]
               /\ last' = AuthResponse("login", 200, login, refreshToken)
    /\ UNCHANGED <<leads, nextLeadId, teams, lots, history, nextReq, inflight, clock>>

\* Faulty variant of clearRefreshToken: logout leaves the token in place.
keepRefreshToken(admin) == admin

\* req.admin.refreshToken = null
clearRefreshToken(admin) == [admin EXCEPT !.refreshToken = NoToken]

\* POST /api/auth/logout behind authenticateToken; accessOk: the request
\* carries an access token of this Admin that verifies (access tokens are not
\* revoked, so any login of the last 24 hours provides one).
Logout(id, accessOk, saveOk) ==
    /\ accessOk => admins[id].issued # {}
    /\ IF ~accessOk
       THEN /\ last' = AuthResponse("logout", 403, id, NoToken)
            /\ UNCHANGED admins
       ELSE IF ~saveOk
       THEN /\ last' = AuthResponse("logout", 500, id, NoToken)
            /\ UNCHANGED admins
       ELSE /\ admins' = [admins EXCEPT ![id] = [clearRefreshToken(@) EXCEPT !.out = TRUE]]
            /\ last' = AuthResponse("logout", 200, id, NoToken)
    /\ UNCHANGED <<leads, nextLeadId, teams, lots, history, nextReq, inflight, clock>>

\* POST /api/auth/refresh with a token string in the body, or none (NoToken).
Refresh(refreshToken) ==
    /\ IF refreshToken = NoToken
       THEN last' = AuthResponse("refresh", 401, Null, refreshToken)
       ELSE IF \E a \in DOMAIN admins : admins[a].refreshToken = refreshToken
       THEN last' = AuthResponse("refresh", 200,
                        CHOOSE a \in DOMAIN admins : admins[a].refreshToken = refreshToken,
                        refreshToken)
       ELSE last' = AuthResponse("refresh", 403, Null, refreshToken)
    /\ UNCHANGED <<leads, nextLeadId, admins, teams, lots, history, nextReq, inflight, clock>>

\* A second passes.
Tick ==
    /\ clock < MaxClock
    /\ clock' = clock + 1
    /\ UNCHANGED <<leads, nextLeadId, admins, teams, lots, history, nextReq, inflight, last>>

AuthLogins == {"ad", "r1", "nobody"}

\* Tokens a client can present: any signed for a login at any second.
AuthTokens == {generateRefreshToken(a, t) : a \in AuthLogins, t \in 0..MaxClock} \cup {NoToken}

AuthInit ==
    /\ leads = <<>>
    /\ nextLeadId = 1
    /\ admins = [ad |-> AuthAdmin("Admin"), r1 |-> AuthAdmin("Reten")]
    /\ teams = <<>>
    /\ lots = <<>>
    /\ history = <<>>
    /\ nextReq = 1
    /\ inflight = <<>>
    /\ clock = 0
    /\ last = AuthResponse("none", 0, Null, NoToken)

AuthNext ==
    \/ \E a \in AuthLogins, p, s \in BOOLEAN : Login(a, p, s)
    \/ \E a \in DOMAIN admins, t, s \in BOOLEAN : Logout(a, t, s)
    \/ \E t \in AuthTokens : Refresh(t)
    \/ Tick

AuthSpec == AuthInit /\ [][AuthNext]_vars

----------------------------------------------------------------------------
(* Properties of the Lead handlers (Spec) *)

PhoneFormattedDigits == <<"1", "5", "5", "5", "1", "2", "3", "4", "5", "6", "7">>

IsCreation == last.op \in {"create", "tilda", "integration"} /\ last.id \in DOMAIN leads

\* C8: a webhook or integration submission whose stripped phone equals the
\* normalizedPhone of a Lead already stored (whatever endpoint stored it) is
\* persisted with status "DUPLICATE", and the Lead count grows by one.
C8_WebhookDuplicateDetected ==
    (last.op \in {"tilda", "integration"} /\ last.code = 200 /\ last.dup)
        => /\ last.id \in DOMAIN leads
           /\ leads[last.id].status = "DUPLICATE"
           /\ Cardinality(DOMAIN leads) = last.count + 1

\* C9: after any create or update through any endpoint, every Lead's
\* normalizedPhone equals its phone with every non-digit character removed.
C9_NormalizedPhoneInvariant ==
    \A l \in DOMAIN leads :
        leads[l].phone # Undefined
            => leads[l].normalizedPhone = DigitsOnly(leads[l].phone)

\* C10: after a Lead creation (POST /api/leads, Tilda webhook, integration
\* webhook) that supplied a phone, the stored normalizedPhone equals the input
\* phone with all non-digit characters removed.
C10_CreationNormalizesPhone ==
    (IsCreation /\ last.phone # Undefined)
        => leads[last.id].normalizedPhone = DigitsOnly(last.phone)

\* C10 witness: "+1 (555) 123-4567" was created and stored as "15551234567".
C10_Witness ==
    /\ IsCreation
    /\ last.op = "create"
    /\ last.code = 201
    /\ last.phone = PhoneFormatted
    /\ leads[last.id].normalizedPhone = PhoneFormattedDigits

\* C11: when a Lead create or update has persisted its mutation and the
\* History write failed (no entry was added), the response is still a success.
C11_HistoryFailureSwallowed ==
    [][(/\ last'.op \in {"create", "update"}
        /\ leads' # leads
        /\ history' = history)
            => last'.code \in {200, 201}]_vars

\* C13: no operation modifies or removes a LeadsHistory entry once created,
\* deleting or bulk-deleting its Lead included: every step keeps the entries
\* there were, unchanged and in place, and at most adds new ones after them.
C13_HistoryOnlyGrows ==
    [][/\ Len(history') >= Len(history)
       /\ SubSeq(history', 1, Len(history)) = history]_vars

\* C13 witness: a Lead was deleted (alone or in bulk) and its entry is still there.
C13_Witness ==
    /\ last.op \in {"deleteLead", "bulkDelete"}
    /\ last.code = 200
    /\ \E j \in 1..Len(history) : history[j].leadId \notin DOMAIN leads

----------------------------------------------------------------------------
(* Properties of the note routes (NoteSpec) *)

\* C19: an add-note request with neither text nor photo is answered 400 and
\* leaves the notes as they were; one with only a photo, for a stored Lead,
\* succeeds, appends exactly one note and sets updatedByNote to the placeholder.
C19_AddNoteTextOrPhoto ==
    last.op = "addNote"
        => /\ (~Truthy(last.text) /\ ~Truthy(last.photo))
                => /\ last.code = 400
                   /\ last.id \in DOMAIN leads => leads[last.id].notes = last.notesBefore
           /\ (~Truthy(last.text) /\ Truthy(last.photo) /\ last.id \in DOMAIN leads)
                => /\ last.code = 200
                   /\ leads[last.id].notes =
                        Append(last.notesBefore, [text |-> EmptyString, photo |-> last.photo])
                   /\ leads[last.id].updatedByNote = PhotoAdded

\* C19 witness: a photo without text was added to a Lead that had a note.
C19_Witness ==
    /\ last.op = "addNote"
    /\ last.code = 200
    /\ ~Truthy(last.text)
    /\ last.photo = SomePhoto
    /\ Len(last.notesBefore) = 1
    /\ Len(leads[last.id].notes) = 2

\* C20: after any sequence of note add, edit and delete operations, every note
\* of every Lead has non-empty text or a photo reference.
C20_NotesHaveTextOrPhoto ==
    \A l \in DOMAIN leads : \A i \in 1..Len(leads[l].notes) :
        \/ leads[l].notes[i].text # EmptyString
        \/ leads[l].notes[i].photo \notin {NullSeq, EmptyString}

----------------------------------------------------------------------------
(* Properties of the Lead list (ListSpec) *)

\* C1: in the response to a Lead-list request by a Manager or Reten caller,
\* whatever the query parameters, every Lead is assigned to the caller.
C1_ManagerSeesOwnLeads ==
    (last.op = "list" /\ admins[last.caller].role \in {"Manager", "Reten"})
        => \A l \in last.data : leads[l].assigned = last.caller

\* C1 witness: a Manager asked for another admin's Leads and got only their own.
C1_Witness ==
    /\ last.op = "list"
    /\ admins[last.caller].role = "Manager"
    /\ last.assigned = {"r2"}
    /\ last.data # {}
    /\ \E l \in DOMAIN leads : leads[l].assigned = "r2"

TeamMemberOrSelf(a, caller) ==
    \/ a = caller
    \/ a \in DOMAIN admins /\ admins[a].team = admins[caller].team

\* C2: in the response to a Lead-list request by a TeamLead caller, every Lead
\* is assigned to an admin of the caller's team or to the caller, and with an
\* `assigned` parameter only requested ids survive (none of them: empty result).
C2_TeamLeadSeesTeamLeads ==
    (last.op = "list" /\ admins[last.caller].role = "TeamLead")
        => /\ last.code = 200
           /\ \A l \in last.data :
                /\ TeamMemberOrSelf(leads[l].assigned, last.caller)
                /\ last.assigned # {} => leads[l].assigned \in last.assigned

\* C17: for a caller whose team is "Team Fantom", whatever the role and the
\* filter parameters, every Lead in the list is assigned to the caller.
C17_TeamFantomSeesOwnLeads ==
    (last.op = "list" /\ admins[last.caller].team = "Team Fantom")
        => \A l \in last.data : leads[l].assigned = last.caller

\* C17 witness: a SuperAdmin of Team Fantom asked for a Manager's Leads, which
\* exist, and got only their own.
C17_Witness ==
    /\ last.op = "list"
    /\ admins[last.caller].role = "SuperAdmin"
    /\ admins[last.caller].team = "Team Fantom"
    /\ last.assigned = {"m1"}
    /\ last.data # {}
    /\ \E l \in DOMAIN leads : leads[l].assigned = "m1"

----------------------------------------------------------------------------
(* Properties of the filter builder (FilterSpec) *)

\* The team parameter is no ObjectId and names no team of any admin.
MalformedTeam ==
    /\ last.team # Undef
    /\ ~IsObjectId(last.team)
    /\ \A a \in DOMAIN admins : admins[a].team # last.team

\* C18: when a team-membership lookup made while building the filter fails, or
\* the team identifier is malformed, the filter is assigned in the empty list
\* (it matches no Lead) and no error is raised.
C18_LookupFailureMatchesNothing ==
    (/\ last.op = "filter"
     /\ last.roleLookup = "failed" \/ last.teamLookup = "failed" \/ MalformedTeam)
        => /\ last.code = 200
           /\ last.filter.assigned = AssignedIn({})

----------------------------------------------------------------------------
(* Properties of the Team routes (TeamSpec) *)

\* C12: after any sequence of Team route operations, for every Admin a and
\* every Team t, a is in t's leaderIds or managerIds iff a.team equals t.name.
C12_AdminTeamInSync ==
    \A a \in DOMAIN admins, t \in DOMAIN teams :
        a \in teams[t].leaderIds \cup teams[t].managerIds
            <=> admins[a].team = teams[t].name

----------------------------------------------------------------------------
(* Properties of the Lot controller (LotSpec) *)

LotMutation == last.op \in {"createLot", "updateLotAmount", "deleteLot"}

LotWritten(r) == \E i \in 1..Len(lots) : r \in lots[i].reqs
HistoryWritten(r) == \E j \in 1..Len(history) : history[j].req = r

ValidLotRequest ==
    /\ last.stage \notin {"gate", "validation", "find", "access", "same", "none"}
    /\ last.fail = 0

\* C4: an amount update with an amount different from the current one adds
\* exactly one amountHistory entry {previous, new} and sets amount to the new one.
C4_AmountUpdateRecorded ==
    (last.op = "updateLotAmount" /\ ValidLotRequest)
        => LET before == last.lotsBefore[last.id]
               after == lots[last.id]
           IN /\ after.amount = last.amount.val
              /\ after.amountHistory =
                    Append(before.amountHistory,
                           [previousAmount |-> before.amount,
                            newAmount |-> last.amount.val])

\* The request named an existing Lot the caller may edit, with its current amount.
SameAmountRequested ==
    /\ last.op = "updateLotAmount"
    /\ last.stage \notin {"gate", "validation", "find", "access", "none"}
    /\ last.lotsBefore[last.id].amount = last.amount.val

\* C6: an amount update whose amount equals the current amount is rejected
\* (400); amount and amountHistory stay as they were and no History is written.
C6_SameAmountRejected ==
    SameAmountRequested
        => /\ last.code = 400
           /\ lots = last.lotsBefore
           /\ history = last.historyBefore

\* C6 witness: r1 asked to set their Lot's amount to what it already is.
C6_Witness ==
    /\ SameAmountRequested
    /\ last.caller = "r1"
    /\ last.code = 400
    /\ lots[last.id].amountHistory = <<>>

\* C7: a delete by the Admin of an existing Lot succeeds and leaves the Lot in
\* the store with isDeleted, status ARCHIVED, deletedAt and deletedBy set; the
\* default Lot list never returns a deleted Lot.
C7_SoftDeleteKeepsLot ==
    /\ (last.op = "deleteLot" /\ ValidLotRequest)
        => /\ last.code = 200
           /\ last.id \in 1..Len(lots)
           /\ lots[last.id].isDeleted
           /\ lots[last.id].status = "ARCHIVED"
           /\ lots[last.id].deletedAt # 0
           /\ lots[last.id].deletedBy = last.caller
    /\ last.op = "getLots" => \A l \in last.data : ~lots[l].isDeleted

\* A creation request by a Reten that passed validation and named a stored Lead
\* assigned to somebody else or to nobody.
ForeignLeadRequested ==
    /\ last.op = "createLot"
    /\ admins[last.caller].role = "Reten"
    /\ last.stage \notin {"gate", "validation", "find", "none"}
    /\ leads[last.id].assigned # last.caller

\* C15: a Lot creation by a Reten succeeds only if the Lead's assigned is the
\* caller; otherwise it is rejected (403) and no Lot and no History is created.
C15_RetenCreatesForOwnLead ==
    /\ (last.op = "createLot" /\ admins[last.caller].role = "Reten" /\ last.code = 201)
            => leads[last.id].assigned = last.caller
    /\ ForeignLeadRequested
            => /\ last.code = 403
               /\ lots = last.lotsBefore
               /\ history = last.historyBefore

\* C15 witness: r2 asked for a Lot on r1's Lead and was refused.
C15_Witness ==
    /\ ForeignLeadRequested
    /\ last.caller = "r2"
    /\ leads[last.id].assigned = "r1"
    /\ last.code = 403

----------------------------------------------------------------------------
(* Properties of the payout handler (PayoutSpec) *)

\* The caller is an Admin, or a TeamLead of the team of the Lot the request names.
PayoutCallerAllowed ==
    \/ admins[last.caller].role = "Admin"
    \/ /\ admins[last.caller].role = "TeamLead"
       /\ last.id \in 1..Len(last.lotsBefore)
       /\ last.lotsBefore[last.id].team = admins[last.caller].team

\* C16: a payout update changes a Lot only for an Admin or a TeamLead of the
\* Lot's team; every other caller is rejected (4xx) and the Lot store and the
\* History are as before.
C16_PayoutRestricted ==
    last.op = "updateLotPayout"
        => /\ lots # last.lotsBefore => PayoutCallerAllowed
           /\ ~PayoutCallerAllowed
                => /\ last.code \in {400, 403, 404}
                   /\ lots = last.lotsBefore
                   /\ history = last.historyBefore

\* C16 witness: the TeamLead of team B sent a valid payout for the Lot of team A
\* and was refused.
C16_Witness ==
    /\ last.op = "updateLotPayout"
    /\ last.caller = "tlB"
    /\ last.id = 1
    /\ last.amount = Amount(500)
    /\ last.code = 403
    /\ lots = last.lotsBefore

----------------------------------------------------------------------------
(* Properties of the Lot model (LotModelSpec) *)

IsChain(h, first, final) ==
    IF h = <<>> THEN first = final
    ELSE /\ h[1].previousAmount = first
         /\ \A i \in 1..(Len(h) - 1) : h[i].newAmount = h[i + 1].previousAmount
         /\ h[Len(h)].newAmount = final

\* C5: after any sequence of successful amount updates of a Lot, amountHistory
\* is a chain: the first entry starts at the creation amount, each entry starts
\* where the one before ended, and the last entry ends at the current amount.
C5_AmountHistoryIsChain ==
    \A i \in 1..Len(lots) :
        IsChain(lots[i].amountHistory, lots[i].created, lots[i].amount)

\* C5 witness: a Lot created with 1000 was updated to 1500 and then to 1200.
C5_Witness ==
    /\ last.op = "updateAmount"
    /\ last.ok
    /\ lots[1].created = 1000
    /\ lots[1].amount = 1200
    /\ lots[1].amountHistory =
            <<[previousAmount |-> 1000, newAmount |-> 1500],
              [previousAmount |-> 1500, newAmount |-> 1200]>>


----------------------------------------------------------------------------
(* Properties of the bulk routes (BulkSpec) *)

BulkOps == {"bulkDelete", "bulkStatus", "bulkAssign", "bulkHide"}

\* The request's change is in place on Lead l.
BulkApplied(l) ==
    IF last.op = "bulkDelete" THEN l \notin DOMAIN leads
    ELSE l \in DOMAIN leads /\ leads[l][last.field] = last.value

\* C21: a bulk delete, status, assign or hide request either applies its change
\* to every Lead its identifiers match or leaves every Lead as it was.
C21_BulkAllOrNothing ==
    last.op \in BulkOps
        => \/ \A l \in last.ids \cap DOMAIN last.before : BulkApplied(l)
           \/ leads = last.before

----------------------------------------------------------------------------
(* Properties of the Lead CRUD routes (CrudSpec) *)

C23_OnlyBulkDeleteRemoves ==
    [][DOMAIN leads \ DOMAIN leads' # {} => last'.op = "bulkDelete"]_vars

\* C23, amended: a Lead's document leaves the store only in DELETE /:id or in a
\* bulk delete; create, update and the visibility toggle remove none.
C23_OnlyDeletesRemove ==
    [][DOMAIN leads \ DOMAIN leads' # {}
        => last'.op \in {"bulkDelete", "deleteLead"}]_vars

\* DELETE /:id has removed Lead 1.
C23_Witness ==
    /\ last.op = "deleteLead" /\ last.code = 200 /\ last.id = 1
    /\ 1 \notin DOMAIN leads

\* The entries the step appends for Lead id carry action type t.
Logged(id, t) ==
    \E i \in (Len(history) + 1)..Len(history') :
        history'[i].leadId = id /\ history'[i].actionType = t

\* C25: an update writes a status-changed entry only if the Lead's status
\* differs before and after, an assignment entry only if assigned differs, a
\* contact-info entry only if phone or email differs; an update that succeeds
\* writes each of them whenever its field differs.
C25_DiffBasedHistory ==
    [][last'.op = "update" /\ last'.id \in DOMAIN leads
        => LET id == last'.id
               statusDiffers == leads[id].status # leads'[id].status
               assignedDiffers == leads[id].assigned # leads'[id].assigned
               contactDiffers == \/ leads[id].phone # leads'[id].phone
                                 \/ leads[id].email # leads'[id].email
           IN /\ Logged(id, "STATUS_CHANGED") => statusDiffers
              /\ Logged(id, "ASSIGNED_TO_MANAGER") => assignedDiffers
              /\ Logged(id, "CONTACT_INFO_UPDATED") => contactDiffers
              /\ last'.code = 200 =>
                    /\ statusDiffers => Logged(id, "STATUS_CHANGED")
                    /\ assignedDiffers => Logged(id, "ASSIGNED_TO_MANAGER")
                    /\ contactDiffers => Logged(id, "CONTACT_INFO_UPDATED")]_vars

\* An update changed the status alone: one status-changed entry and the general
\* entry, no assignment or contact-info entry.
C25_Witness ==
    /\ last.op = "update" /\ last.code = 200 /\ last.id = 1
    /\ 1 \in DOMAIN leads /\ leads[1].status = "WON" /\ leads[1].assigned = Null
    /\ Len(history) = 2
    /\ history[1].actionType = "STATUS_CHANGED"
    /\ history[2].actionType = "LEAD_UPDATED"

----------------------------------------------------------------------------
(* Properties of status filtering (StatusSpec) *)

StatusListed == last.op = "list" /\ last.caller = "sa"

\* A status or statuses parameter that names at least one status.
Supplied(p) == p.type = "string" /\ Trim(p.text) # <<>>

WithStatus(vals) == {l \in DOMAIN leads : <<leads[l].status>> \in vals}

\* The statuses a CSV string names
Named(p) == {Trim(x) : x \in Items(Split(p.text))} \ {<<>>}

\* C24: without a statusMode the list holds the Leads whose status equals the
\* status value or is in its CSV list; with the inclusion mode, the Leads whose
\* status is in statuses; with the exclusion mode, the Leads whose status is
\* not in statuses; whatever the statusMode, a status that was supplied
\* constrains the list unless statuses took its place.
C24_StatusModes ==
    StatusListed =>
        LET q == last
        IN /\ (q.statusMode = Undef /\ Supplied(q.status))
                => last.data = WithStatus({q.status.text} \cup Named(q.status))
           /\ (q.statusMode = "only" /\ Supplied(q.statuses))
                => last.data = WithStatus(Named(q.statuses))
           /\ (q.statusMode = "other" /\ Supplied(q.statuses))
                => last.data = DOMAIN leads \ WithStatus(Named(q.statuses))
           /\ (q.statusMode \notin {Undef, "only", "other"} /\ Supplied(q.status))
                => last.data \subseteq WithStatus({q.status.text} \cup Named(q.status))

----------------------------------------------------------------------------
(* Properties of the Lead queries (QuerySpec) *)

\* C26: whatever the query string holds, the Leads a list, search or
\* status-counts request returns or counts for a Manager or Reten caller are
\* assigned to the caller, and for a TeamLead caller to the caller or to an
\* admin of the caller's team.
C26_QueriesScopedByToken ==
    last.op \in {"list", "search", "statusCounts"}
        => \A l \in last.data :
              CASE admins[last.caller].role \in {"Manager", "Reten"} ->
                        leads[l].assigned = last.caller
                [] admins[last.caller].role = "TeamLead" ->
                        TeamMemberOrSelf(leads[l].assigned, last.caller)
                [] OTHER -> TRUE


LotHandlers == {"createLot", "updateLotAmount", "updateLotPayout", "deleteLot"}

C27_OneFreshLeadPerPhone ==
    \A a, b \in DOMAIN leads :
        (a # b /\ leads[a].phone = leads[b].phone /\ leads[a].normalizedPhone # EmptyString)
            => (leads[a].status = "DUPLICATE" \/ leads[b].status = "DUPLICATE")

\* C28: with amount updates of one Lot interleaved at their awaits, the store
\* always holds the result of the requests answered 200 in some serial order:
\* the Lot carries the writes of exactly those requests, one amountHistory
\* entry each, every entry's previousAmount is the preceding entry's newAmount
\* (the created amount for the first) and amount is the last entry's newAmount.
C28_SerialAmountUpdates ==
    \A id \in 1..Len(lots) :
        LET l == lots[id]
            h == l.amountHistory
            ok == {r \in DOMAIN inflight :
                      /\ inflight[r].stage = "done"
                      /\ inflight[r].code = 200
                      /\ inflight[r].id = id}
        IN /\ l.reqs = ok
           /\ Len(h) = Cardinality(ok)
           /\ \A i \in 1..Len(h) :
                  h[i].previousAmount = IF i = 1 THEN l.created ELSE h[i - 1].newAmount
           /\ l.amount = IF h = <<>> THEN l.created ELSE h[Len(h)].newAmount

\* Two requests for the same Lot were between their awaits together and both
\* have answered, one of them after a write conflict.
C28_Witness ==
    \E r, p \in DOMAIN inflight :
        /\ p \in inflight[r].with
        /\ inflight[r].stage = "done" /\ inflight[p].stage = "done"
        /\ "conflict" \in {inflight[r].at, inflight[p].at}
        /\ "history" \in {inflight[r].at, inflight[p].at}

\* C30: a refresh request is answered with a new access token only when the
\* token it presents is the refresh token of the latest login of the Admin it
\* was issued to, and that Admin has not logged out since that login.
C30_RefreshOnlyLatestLogin ==
    (last.op = "refresh" /\ last.code = 200)
        => /\ last.token.id \in DOMAIN admins
           /\ last.admin = last.token.id
           /\ ~admins[last.token.id].out
           /\ last.token = admins[last.token.id].latest

\* A refresh token handed out by a login is refused after its Admin logged out.
C30_Witness ==
    /\ last.op = "refresh"
    /\ last.code = 403
    /\ \E a \in DOMAIN admins : admins[a].out /\ last.token \in admins[a].issued

====
